---- MODULE Spec2Model ----
(***************************************************************************)
(* Model of boa's JsString (core/engine/src/string): a reference counted,  *)
(* immutable string stored either as ascii bytes or as UTF-16 code units,  *)
(* with a tagged pointer that is either a heap block or an index into the  *)
(* table of static (interned) strings.                                     *)
(***************************************************************************)
EXTENDS Integers, Sequences, FiniteSets, TLC

\* ------------------------------------------------------------------------
\* Bounds of the model
\* ------------------------------------------------------------------------
\* Number of heap addresses the allocator can hand out.
MaxAddr == 2

\* Number of JsString values (handles) that may be alive at once.
MaxHandles == 4

\* Largest value of the refcount field; usize::MAX scaled down so that the
\* wrap-around of `wrapping_add` is reachable.  Arithmetic is modulo
\* RefcountMax + 1.
RefcountMax == 3

\* ------------------------------------------------------------------------
\* Sample texts
\* ------------------------------------------------------------------------
\* The texts the modelled program builds strings from, as UTF-16 units:
\* "", "a", "aa" (ascii; the first two are interned), U+00E9 and "a" U+00E9
\* (not ascii).  A program concatenates views only into one of these texts.
Texts == {<<>>, <<97>>, <<97, 97>>, <<233>>, <<97, 233>>}

SeqsUpTo(S, n) == UNION {[1..k -> S] : k \in 0..n}

\* ------------------------------------------------------------------------
\* Small helpers on sequences
\* ------------------------------------------------------------------------
RECURSIVE Flatten(_)
Flatten(ss) == IF ss = <<>> THEN <<>> ELSE Head(ss) \o Flatten(Tail(ss))

RECURSIVE SumSeq(_)
SumSeq(ns) == IF ns = <<>> THEN 0 ELSE Head(ns) + SumSeq(Tail(ns))

\* ------------------------------------------------------------------------
\* Tagged<RawJsString>: a heap pointer or an index of a static string
\* ------------------------------------------------------------------------
Ptr(a) == [kind |-> "Ptr", v |-> a]

Tag(i) == [kind |-> "Tag", v |-> i]

is_tagged(t) == t.kind = "Tag"

\* The absence of a JsString (an operation that did not return one).
NoString == [kind |-> "None", v |-> 0]

\* The null pointer returned by a failing `alloc`.
NullAddr == 0

Addrs == 1..MaxAddr

\* ------------------------------------------------------------------------
\* StaticJsStrings (string/common.rs): the table of interned strings.
\* Every entry is ascii text; index 0 is the empty string.
\* ------------------------------------------------------------------------
RAW_STATICS == << <<>>, <<97>> >>

StaticIndices == 0..(Len(RAW_STATICS) - 1)

\* `StaticJsStrings::get(index)`
StaticJsStrings_get(index) == RAW_STATICS[index + 1]

\* `StaticJsStrings::get_string(s)`: the static JsString holding `s`, if any.
StaticJsStrings_get_string(s) ==
    IF \E i \in StaticIndices : RAW_STATICS[i + 1] = s
    THEN Tag(CHOOSE i \in StaticIndices : RAW_STATICS[i + 1] = s)
    ELSE NoString

EMPTY_STRING == Tag(0)

Targets == {Ptr(a) : a \in Addrs} \cup {Tag(i) : i \in StaticIndices}

\* ------------------------------------------------------------------------
\* Encoding classification
\* ------------------------------------------------------------------------
\* `is_ascii(slice: &[u16])`: every unit survives the 0b0111_1111 mask.
is_ascii(slice) == \A i \in 1..Len(slice) : slice[i] % 128 = slice[i]

\* `str::encode_utf16` for one scalar value.
encode_utf16_char(c) ==
    IF c < 65536 THEN <<c>>
    ELSE <<55296 + ((c - 65536) \div 1024), 56320 + ((c - 65536) % 1024)>>

\* `str::encode_utf16` for narrow text given as its scalar values.
RECURSIVE encode_utf16(_)
encode_utf16(s) ==
    IF s = <<>> THEN <<>> ELSE encode_utf16_char(Head(s)) \o encode_utf16(Tail(s))

\* ------------------------------------------------------------------------
\* JsStr (str.rs): a borrowed view of an owned string
\* ------------------------------------------------------------------------
\* A value standing for a panic raised while building a view.
PanicView == [variant |-> "Panic", data |-> <<>>]

\* `JsStr::ascii_unchecked`: debug builds assert that the bytes are ascii.
ascii_unchecked(value, dbg) ==
    IF dbg /\ ~is_ascii(value) THEN PanicView
    ELSE [variant |-> "Ascii", data |-> value]

\* `JsStr::u16_unchecked`: debug builds assert that the units are not ascii.
u16_unchecked(value, dbg) ==
    IF dbg /\ is_ascii(value) THEN PanicView
    ELSE [variant |-> "U16", data |-> value]

\* `JsStr::as_ascii`
as_ascii(str) == str.variant = "Ascii"

\* `JsStr::len`
JsStr_len(str) == Len(str.data)

\* `impl JsSliceIndex for Range<usize>`: `get(value, start..end)`.
\* "Absent" stands for None.
AbsentView == [variant |-> "Absent", data |-> <<>>]

JsSliceIndex_get_range(value, start, end, dbg) ==
    IF start > end \/ end > Len(value.data) THEN AbsentView
    ELSE IF value.variant = "Ascii"
         THEN ascii_unchecked(SubSeq(value.data, start + 1, end), dbg)
         ELSE u16_unchecked(SubSeq(value.data, start + 1, end), dbg)

\* ------------------------------------------------------------------------
\* JsStringSlice (slice.rs): a view of one of four origins
\* ------------------------------------------------------------------------
u8_ascii_unchecked(value, dbg) ==
    IF dbg /\ ~is_ascii(value) THEN PanicView
    ELSE [variant |-> "U8Ascii", data |-> value]

u16_ascii_unchecked(value, dbg) ==
    IF dbg /\ ~is_ascii(value) THEN PanicView
    ELSE [variant |-> "U16Ascii", data |-> value]

\* The narrow text is kept as its scalar values; its UTF-16 length is
\* recomputed by JsStringSlice_len as the constructor precomputes it.
u8_non_ascii_unchecked(value, dbg) ==
    IF dbg /\ is_ascii(value) THEN PanicView
    ELSE [variant |-> "U8NonAscii", data |-> value]

u16_non_ascii_unchecked(value, dbg) ==
    IF dbg /\ is_ascii(value) THEN PanicView
    ELSE [variant |-> "U16NonAscii", data |-> value]

\* `JsStringSlice::len`
JsStringSlice_len(s) ==
    IF s.variant = "U8NonAscii" THEN Len(encode_utf16(s.data)) ELSE Len(s.data)

\* `JsStringSlice::is_ascii`
JsStringSlice_is_ascii(s) == s.variant \in {"U8Ascii", "U16Ascii"}

\* `impl From<&str> for JsStringSlice`
JsStringSlice_from_str(value, dbg) ==
    IF is_ascii(value) THEN u8_ascii_unchecked(value, dbg)
    ELSE u8_non_ascii_unchecked(value, dbg)

\* `impl From<&[u16]> for JsStringSlice`
JsStringSlice_from_u16(s, dbg) ==
    IF is_ascii(s) THEN u16_ascii_unchecked(s, dbg)
    ELSE u16_non_ascii_unchecked(s, dbg)

\* `impl From<JsStr> for JsStringSlice`
JsStringSlice_from_JsStr(value, dbg) ==
    IF value.variant = "Ascii" THEN u8_ascii_unchecked(value.data, dbg)
    ELSE u16_non_ascii_unchecked(value.data, dbg)

\* `Iter::new(s)` collected: the code units a view yields.
Iter(s) ==
    IF s.variant = "U8NonAscii" THEN encode_utf16(s.data) ELSE s.data

\* ------------------------------------------------------------------------
\* RawJsString: the heap block { len, flags, refcount, data }
\* ------------------------------------------------------------------------
\* An address that holds no block (never allocated, or deallocated).
\* Beside the fields of the header a block records what the allocator and
\* the writer did with it: the layout `alloc` was called with, and the bytes
\* per code unit the data was written with.
FreeBlock ==
    [live |-> FALSE, len |-> 0, flags |-> 0, refcount |-> 0, data |-> <<>>,
     layout |-> [ok |-> FALSE, size |-> 0, align |-> 0], unit |-> 0]

\* The address width, scaled down to 8 bits: usize::MAX and isize::MAX.
USIZE_MAX == 255

ISIZE_MAX == 127

\* `size_of::<RawJsString>()` (DATA_OFFSET) and its alignment when a usize
\* is one byte: three usize fields and the zero-length [u16; 0].
DATA_OFFSET == 4

RawJsString_align == 2

\* `usize::checked_add`: -1 stands for None.
checked_add(x, y) == IF x + y > USIZE_MAX THEN -1 ELSE x + y

\* `Layout`: a size and an alignment, or LayoutError.
LayoutError == [ok |-> FALSE, size |-> 0, align |-> 0]

Layout(size, align) == [ok |-> TRUE, size |-> size, align |-> align]

\* The largest size a Layout of the given alignment may have.
max_size_for_align(align) == ISIZE_MAX - (align - 1)

\* `Layout::array::<T>(n)` for an element of `elem` bytes
Layout_array(elem, n) ==
    IF n > max_size_for_align(elem) \div elem THEN LayoutError ELSE Layout(n * elem, elem)

\* The smallest multiple of `align` that is not below `size`.
round_up(size, align) == ((size + align - 1) \div align) * align

\* `Layout::extend(next)`: the layout of `self` followed by `next`.
Layout_extend(self, next) ==
    LET new_align == IF self.align > next.align THEN self.align ELSE next.align
        offset == round_up(self.size, next.align)
        new_size == offset + next.size
    IN  IF ~next.ok \/ new_size > USIZE_MAX \/ new_size > max_size_for_align(new_align)
        THEN LayoutError
        ELSE Layout(new_size, new_align)

\* `Layout::pad_to_align`
pad_to_align(layout) ==
    IF layout.ok THEN Layout(round_up(layout.size, layout.align), layout.align)
    ELSE layout

\* The layout `try_allocate_inner` asks the allocator for.
alloc_layout(str_len, ascii) ==
    pad_to_align(Layout_extend(Layout(DATA_OFFSET, RawJsString_align),
                               IF ascii THEN Layout_array(1, str_len)
                               ELSE Layout_array(2, str_len)))

\* Variant of drop_layout that sizes every block as UTF-16.
drop_layout_wide(inner) ==
    pad_to_align(Layout_extend(Layout(DATA_OFFSET, RawJsString_align),
                               Layout_array(2, inner.len)))

\* The layout `drop` rebuilds from the header of a block before `dealloc`.
drop_layout(inner) ==
    IF inner.flags = 0
    THEN pad_to_align(Layout_extend(Layout(DATA_OFFSET, RawJsString_align),
                                    Layout_array(2, inner.len)))
    ELSE pad_to_align(Layout_extend(Layout(DATA_OFFSET, RawJsString_align),
                                    Layout_array(1, inner.len)))

\* The header written by `try_allocate_inner`; the data is written afterwards.
RawJsString(str_len, ascii) ==
    [live |-> TRUE, len |-> str_len, flags |-> IF ascii THEN 1 ELSE 0,
     refcount |-> 1, data |-> <<>>, layout |-> alloc_layout(str_len, ascii), unit |-> 0]

\* `try_allocate_inner`: `a` is what `alloc` returns (NullAddr on failure);
\* `alloc` is called only with a valid layout.
try_allocate_inner(H, a, str_len, ascii) ==
    IF ~alloc_layout(str_len, ascii).ok
    THEN [ok |-> FALSE, err |-> "overflow", heap |-> H, nalloc |-> 0]
    ELSE IF a = NullAddr
    THEN [ok |-> FALSE, err |-> "alloc_error", heap |-> H, nalloc |-> 1]
    ELSE [ok |-> TRUE, err |-> "none", nalloc |-> 1,
          heap |-> [H EXCEPT ![a] = RawJsString(str_len, ascii)]]

\* `allocate_inner`: turns the errors of `try_allocate_inner` into aborts.
allocate_inner(H, a, str_len, ascii) == try_allocate_inner(H, a, str_len, ascii)

\* What an operation that may build a JsString leaves behind: the heap, the
\* returned JsString (NoString when it did not return), the number of calls
\* of `alloc` and `dealloc` it made, and how it ended.
Outcome(H, res, nalloc, nfree, st) ==
    [heap |-> H, res |-> res, nalloc |-> nalloc, nfree |-> nfree, status |-> st]

\* `JsString::as_str`
as_str(H, t, dbg) ==
    IF is_tagged(t)
    THEN ascii_unchecked(StaticJsStrings_get(t.v), dbg)
    ELSE LET h == H[t.v] IN
         IF h.flags = 0
         THEN u16_unchecked(SubSeq(h.data, 1, h.len), dbg)
         ELSE ascii_unchecked(SubSeq(h.data, 1, h.len), dbg)

\* `JsString::len`
len(H, t) == IF is_tagged(t) THEN Len(StaticJsStrings_get(t.v)) ELSE H[t.v].len

\* `JsString::is_static`
is_static(t) == is_tagged(t)

\* `tests::refcount`: None ("Absent") for a static string.
refcount(H, t) == IF is_tagged(t) THEN "Absent" ELSE H[t.v].refcount

\* Variant of clone that hands out the pointer without counting it.
clone_no_increment(H, t) == [heap |-> H, res |-> t, status |-> "ok"]

\* Variant of clone that rebuilds a static string as the default string.
clone_static_default(H, t) ==
    IF is_tagged(t) THEN [heap |-> H, res |-> EMPTY_STRING, status |-> "ok"]
    ELSE LET strong == (H[t.v].refcount + 1) % (RefcountMax + 1) IN
         IF strong = 0
         THEN [heap |-> H, res |-> NoString, status |-> "abort"]
         ELSE [heap |-> [H EXCEPT ![t.v].refcount = strong], res |-> t, status |-> "ok"]

\* Variant of clone that stores the wrapped count instead of aborting.
clone_wrapping(H, t) ==
    IF is_tagged(t) THEN [heap |-> H, res |-> t, status |-> "ok"]
    ELSE [heap |-> [H EXCEPT ![t.v].refcount = (@ + 1) % (RefcountMax + 1)],
          res |-> t, status |-> "ok"]

\* `impl Clone for JsString`: the new heap, or an abort when the count wraps.
clone(H, t) ==
    IF is_tagged(t) THEN [heap |-> H, res |-> t, status |-> "ok"]
    ELSE LET strong == (H[t.v].refcount + 1) % (RefcountMax + 1) IN
         IF strong = 0
         THEN [heap |-> H, res |-> NoString, status |-> "abort"]
         ELSE [heap |-> [H EXCEPT ![t.v].refcount = strong], res |-> t, status |-> "ok"]

\* Variant of drop that deallocates without looking at the count.
drop_always_frees(H, t) ==
    IF is_tagged(t) THEN [heap |-> H, nfree |-> 0, layout |-> LayoutError]
    ELSE [heap |-> [H EXCEPT ![t.v] = FreeBlock], nfree |-> 1,
          layout |-> drop_layout(H[t.v])]

\* `impl Drop for JsString`: decrement, and deallocate on reaching zero;
\* `layout` is the layout handed to `dealloc`.
drop(H, t) ==
    IF is_tagged(t) THEN [heap |-> H, nfree |-> 0, layout |-> LayoutError]
    ELSE LET rc == (H[t.v].refcount - 1) % (RefcountMax + 1) IN
         IF rc # 0
         THEN [heap |-> [H EXCEPT ![t.v].refcount = rc], nfree |-> 0, layout |-> LayoutError]
         ELSE [heap |-> [H EXCEPT ![t.v] = FreeBlock], nfree |-> 1,
               layout |-> drop_layout(H[t.v])]

\* `impl Default for JsString`
default == EMPTY_STRING

\* Variant of WriteUnits that narrows every unit to a byte.
WriteUnits_narrowing(string) ==
    [i \in 1..Len(Iter(string)) |-> Iter(string)[i] % 256]

\* The bytes per code unit `from_slice_skip_interning` writes with: `u8`
\* stores for the ascii origins, `u16` stores for the others.
WriteWidth(string) == IF string.variant \in {"U8Ascii", "U16Ascii"} THEN 1 ELSE 2

\* The units `from_slice_skip_interning` writes for a view into its block.
WriteUnits(string) ==
    CASE string.variant = "U8Ascii" -> string.data
      [] string.variant = "U16Ascii" ->
            [i \in 1..Len(string.data) |-> string.data[i] % 256]
      [] string.variant = "U8NonAscii" -> encode_utf16(string.data)
      [] string.variant = "U16NonAscii" -> string.data

\* Variant of from_slice_skip_interning that shares a live block of equal
\* content instead of allocating.
from_slice_skip_interning_dedup(H, a, string) ==
    LET same == {b \in Addrs : H[b].live /\ H[b].data = WriteUnits(string)
                               /\ (H[b].flags # 0) = JsStringSlice_is_ascii(string)}
        r == allocate_inner(H, a, JsStringSlice_len(string), JsStringSlice_is_ascii(string))
    IN  IF same # {}
        THEN LET b == CHOOSE x \in same : TRUE IN
             Outcome([H EXCEPT ![b].refcount = @ + 1], Ptr(b), 0, 0, "ok")
        ELSE IF ~r.ok THEN Outcome(H, NoString, r.nalloc, 0, r.err)
        ELSE Outcome([r.heap EXCEPT ![a].data = WriteUnits(string),
                                    ![a].unit = WriteWidth(string)], Ptr(a), 1, 0, "ok")

\* `JsString::from_slice_skip_interning`
from_slice_skip_interning(H, a, string) ==
    LET r == allocate_inner(H, a, JsStringSlice_len(string), JsStringSlice_is_ascii(string)) IN
    IF ~r.ok THEN Outcome(H, NoString, r.nalloc, 0, r.err)
    ELSE Outcome([r.heap EXCEPT ![a].data = WriteUnits(string),
                                ![a].unit = WriteWidth(string)], Ptr(a), 1, 0, "ok")

\* Variant of from_slice that returns the new block without the lookup.
from_slice_no_lookup(H, a, string, dbg) == from_slice_skip_interning(H, a, string)

\* `JsString::from_slice`: build the block, then look the text up.
from_slice(H, a, string, dbg) ==
    LET this == from_slice_skip_interning(H, a, string) IN
    IF this.status # "ok" THEN this
    ELSE LET s == as_str(this.heap, this.res, dbg)
             d == drop(this.heap, this.res)
         IN  IF s.variant = "Panic"
             THEN Outcome(d.heap, NoString, 1, d.nfree, "panic")
             ELSE IF as_ascii(s) /\ StaticJsStrings_get_string(s.data) # NoString
                  THEN Outcome(d.heap, StaticJsStrings_get_string(s.data), 1, d.nfree, "ok")
                  ELSE this

\* The units `concat_array` writes for one view, given the result encoding.
ConcatUnits(ascii, string) ==
    CASE ascii /\ string.variant = "U8Ascii" -> string.data
      [] ascii /\ string.variant = "U16Ascii" ->
            [i \in 1..Len(string.data) |-> string.data[i] % 256]
      [] ~ascii /\ string.variant = "U8Ascii" -> string.data
      [] ~ascii /\ string.variant = "U8NonAscii" -> encode_utf16(string.data)
      [] ~ascii /\ string.variant \in {"U16Ascii", "U16NonAscii"} -> string.data

\* Variant of checked_sum that wraps around instead of failing.
checked_sum_wrapping(lens, full_count) ==
    (full_count + SumSeq(lens)) % (USIZE_MAX + 1)

\* The loop of `concat_array` that adds the lengths with checked_add: -1
\* when a sum overflows.
RECURSIVE checked_sum(_, _)
checked_sum(lens, full_count) ==
    IF lens = <<>> THEN full_count
    ELSE IF checked_add(full_count, Head(lens)) = -1 THEN -1
    ELSE checked_sum(Tail(lens), checked_add(full_count, Head(lens)))

\* `JsString::concat_array`
concat_array(H, a, strings, dbg) ==
    LET ascii == \A i \in 1..Len(strings) : JsStringSlice_is_ascii(strings[i])
        full_count == checked_sum([i \in 1..Len(strings) |-> JsStringSlice_len(strings[i])], 0)
        r == allocate_inner(H, a, full_count, ascii)
    IN
    IF full_count = -1 THEN Outcome(H, NoString, 0, 0, "overflow")
    ELSE IF ~r.ok THEN Outcome(H, NoString, r.nalloc, 0, r.err)
    ELSE LET H1 == [r.heap EXCEPT ![a].data =
                       Flatten([i \in 1..Len(strings) |-> ConcatUnits(ascii, strings[i])]),
                                  ![a].unit = IF ascii THEN 1 ELSE 2]
             string == Ptr(a)
             slice == as_str(H1, string, dbg)
             d == drop(H1, string)
         IN  CASE slice.variant = "Panic" -> Outcome(d.heap, NoString, 1, d.nfree, "panic")
               [] slice.variant = "U16" ->
                     IF is_ascii(slice.data)
                     THEN Outcome(d.heap, NoString, 1, d.nfree, "panic")
                     ELSE Outcome(H1, string, 1, 0, "ok")
               [] slice.variant = "Ascii" ->
                     IF StaticJsStrings_get_string(slice.data) # NoString
                     THEN Outcome(d.heap, StaticJsStrings_get_string(slice.data), 1, d.nfree, "ok")
                     ELSE Outcome(H1, string, 1, 0, "ok")

\* `JsString::concat`
concat(H, a, x, y, dbg) == concat_array(H, a, <<x, y>>, dbg)

\* `impl From<&[u16]> for JsString`
From_u16(H, a, s, dbg) == from_slice(H, a, JsStringSlice_from_u16(s, dbg), dbg)

\* Variant of From<&str> that builds the block before asking the interner.
From_str_build_first(H, a, s, dbg) == from_slice(H, a, JsStringSlice_from_str(s, dbg), dbg)

\* `impl From<&str> for JsString`: the interner is asked first.
From_str(H, a, s, dbg) ==
    IF StaticJsStrings_get_string(s) # NoString
    THEN Outcome(H, StaticJsStrings_get_string(s), 0, 0, "ok")
    ELSE from_slice_skip_interning(H, a, JsStringSlice_from_str(s, dbg))

\* `impl From<JsStr> for JsString`
From_JsStr(H, a, value, dbg) ==
    IF value.variant = "Ascii"
    THEN IF StaticJsStrings_get_string(value.data) # NoString
         THEN Outcome(H, StaticJsStrings_get_string(value.data), 0, 0, "ok")
         ELSE from_slice_skip_interning(H, a, u8_ascii_unchecked(value.data, dbg))
    ELSE LET slice == u16_non_ascii_unchecked(value.data, dbg) IN
         IF slice.variant = "Panic" THEN Outcome(H, NoString, 0, 0, "panic")
         ELSE from_slice(H, a, slice, dbg)

\* `impl From<JsStringSlice> for JsString`
From_JsStringSlice(H, a, value, dbg) ==
    IF value.variant = "U8Ascii"
    THEN IF StaticJsStrings_get_string(value.data) # NoString
         THEN Outcome(H, StaticJsStrings_get_string(value.data), 0, 0, "ok")
         ELSE from_slice_skip_interning(H, a, u8_ascii_unchecked(value.data, dbg))
    ELSE from_slice(H, a, value, dbg)

\* `JsString::to_vec`: ascii bytes are widened, UTF-16 units are copied.
to_vec(H, t, dbg) == as_str(H, t, dbg).data

\* The bytes of a slice of u16 as `Hash::hash_slice` feeds them to the hasher
\* (native byte order, little endian here).
RECURSIVE u16_bytes(_)
u16_bytes(s) ==
    IF s = <<>> THEN <<>> ELSE <<Head(s) % 256, Head(s) \div 256>> \o u16_bytes(Tail(s))

\* The hasher input of `<[u8] as Hash>::hash`: length prefix, then the bytes.
hash_u8_slice(s) == [len_prefix |-> Len(s), bytes |-> s]

\* The hasher input of `<[u16] as Hash>::hash`.
hash_u16_slice(s) == [len_prefix |-> Len(s), bytes |-> u16_bytes(s)]

\* `impl Hash for JsString`: what the string writes into the hasher.
hash(H, t, dbg) ==
    LET s == as_str(H, t, dbg) IN
    IF s.variant = "Ascii" THEN hash_u8_slice(s.data) ELSE hash_u16_slice(s.data)

\* `<Vec<u16> as Ord>::cmp`: lexicographic order of the units.
RECURSIVE cmp_units(_, _)
cmp_units(x, y) ==
    CASE x = <<>> /\ y = <<>> -> "Equal"
      [] x = <<>> /\ y # <<>> -> "Less"
      [] x # <<>> /\ y = <<>> -> "Greater"
      [] OTHER -> IF Head(x) < Head(y) THEN "Less"
                  ELSE IF Head(x) > Head(y) THEN "Greater"
                  ELSE cmp_units(Tail(x), Tail(y))

\* `impl Ord for JsString`
cmp(H, t, other, dbg) == cmp_units(to_vec(H, t, dbg), to_vec(H, other, dbg))

\* `impl PartialEq for JsString`: the derived equality of the two JsStr.
eq(H, t, other, dbg) == as_str(H, t, dbg) = as_str(H, other, dbg)

\* The code units a JsString holds, read directly from its storage.
CodeUnits(H, t) ==
    IF is_tagged(t) THEN StaticJsStrings_get(t.v) ELSE H[t.v].data

\* Whether a JsString is stored as ascii bytes.
StoredAscii(H, t) == is_tagged(t) \/ H[t.v].flags # 0

\* ------------------------------------------------------------------------
\* The lifecycle state machine: a program that owns JsString values
\* ------------------------------------------------------------------------
VARIABLES
    heap,               \* address -> RawJsString block (or FreeBlock)
    handles,            \* Tagged value -> number of live JsStrings holding it
    debug_assertions,   \* whether the build checks debug_assert!
    status,             \* "running", or how the process ended
    last,               \* the operation executed last and what it did
    threads             \* the threads sharing a block: their positions in clone / drop

vars == <<heap, handles, debug_assertions, status, last, threads>>

\* A program with a single thread.
NoThreads == [sync |-> TRUE, pc |-> <<>>, tmp |-> <<>>, own |-> <<>>]

\* Narrow texts (as scalar values) and UTF-16 slices a caller passes in.
StrInputs == {s \in Texts : encode_utf16(s) \in Texts}

U16Inputs == Texts

NumHandles == SumSeq([i \in 1..MaxAddr |-> handles[Ptr(i)]])
              + SumSeq([i \in 1..Len(RAW_STATICS) |-> handles[Tag(i - 1)]])

Live == {t \in Targets : handles[t] > 0}

\* What `alloc` may return: a free address, or null.
AllocChoices == {a \in Addrs : ~heap[a].live} \cup {NullAddr}

OpRecord(op, arg, input, res, nalloc, nfree) ==
    [op |-> op, arg |-> arg, input |-> input, res |-> res,
     nalloc |-> nalloc, nfree |-> nfree]

Init ==
    /\ heap = [a \in Addrs |-> FreeBlock]
    /\ handles = [t \in Targets |-> 0]
    /\ debug_assertions \in BOOLEAN
    /\ status = "running"
    /\ last = OpRecord("init", NoString, <<>>, NoString, 0, 0)
    /\ threads = NoThreads

\* The caller keeps the JsString an operation returned.
Finish(o, op, arg, input) ==
    /\ heap' = o.heap
    /\ handles' = IF o.res # NoString THEN [handles EXCEPT ![o.res] = @ + 1] ELSE handles
    /\ status' = IF o.status = "ok" THEN "running" ELSE o.status
    /\ last' = OpRecord(op, arg, input, o.res, o.nalloc, o.nfree)
    /\ UNCHANGED <<debug_assertions, threads>>

CanOwnMore == status = "running" /\ NumHandles < MaxHandles

\* js_string!() / JsString::default()
ActDefault ==
    /\ CanOwnMore
    /\ Finish(Outcome(heap, default, 0, 0, "ok"), "default", NoString, <<>>)

\* JsString::from(s) for narrow text s
ActFromStr ==
    /\ CanOwnMore
    /\ \E s \in StrInputs, a \in AllocChoices :
          Finish(From_str(heap, a, s, debug_assertions), "From_str", NoString, s)

\* JsString::from(s) for a UTF-16 slice s
ActFromU16 ==
    /\ CanOwnMore
    /\ \E s \in U16Inputs, a \in AllocChoices :
          Finish(From_u16(heap, a, s, debug_assertions), "From_u16", NoString, s)

\* The ranges start..end that lie inside a string of length n.
Ranges(n) == {r \in (0..n) \X (0..n) : r[1] <= r[2]}

\* s.get(start..end) for a live JsString s
GetRange(t, r) ==
    JsSliceIndex_get_range(as_str(heap, t, debug_assertions), r[1], r[2], debug_assertions)

\* s.get(start..end): only a panic of the call changes the state.
ActGet ==
    /\ status = "running"
    /\ \E t \in Live : \E r \in Ranges(len(heap, t)) :
          /\ heap' = heap
          /\ handles' = handles
          /\ status' = IF GetRange(t, r).variant = "Panic" THEN "panic" ELSE "running"
          /\ last' = OpRecord("get", t, GetRange(t, r), NoString, 0, 0)
          /\ UNCHANGED <<debug_assertions, threads>>

\* The JsStr views of the live strings: whole strings and their sub-ranges.
OwnedStrs ==
    {v \in UNION {{GetRange(t, r) : r \in Ranges(len(heap, t))} : t \in Live} :
        v.variant \in {"Ascii", "U16"}}

\* JsString::from(v) for a JsStr v
ActFromJsStr ==
    /\ CanOwnMore
    /\ \E v \in OwnedStrs, a \in AllocChoices :
          Finish(From_JsStr(heap, a, v, debug_assertions), "From_JsStr", NoString, v)

\* The JsStringSlice views a caller can make: of foreign text, of foreign
\* UTF-16 units, and of the JsStr views of live strings.
Views ==
    {v \in {JsStringSlice_from_str(s, debug_assertions) : s \in StrInputs}
           \cup {JsStringSlice_from_u16(s, debug_assertions) : s \in U16Inputs}
           \cup {JsStringSlice_from_JsStr(s, debug_assertions) : s \in OwnedStrs} :
        v.variant # "Panic"}

\* JsString::from(v) for a JsStringSlice v
ActFromSlice ==
    /\ CanOwnMore
    /\ \E v \in Views, a \in AllocChoices :
          Finish(From_JsStringSlice(heap, a, v, debug_assertions), "From_JsStringSlice", NoString, v)

\* Longest list of views passed to concat_array.
MaxParts == 2

\* The lists of views that concatenate to one of the sample texts.
ViewLists ==
    {vs \in SeqsUpTo(Views, MaxParts) :
        Flatten([i \in 1..Len(vs) |-> Iter(vs[i])]) \in Texts}

\* JsString::concat_array(strings)
ActConcat ==
    /\ CanOwnMore
    /\ \E vs \in ViewLists, a \in AllocChoices :
          Finish(concat_array(heap, a, vs, debug_assertions), "concat_array", NoString, vs)

\* s.clone() for a live JsString s
ActClone ==
    /\ CanOwnMore
    /\ \E t \in Live :
          LET c == clone(heap, t) IN
          Finish(Outcome(c.heap, c.res, 0, 0, c.status), "clone", t, <<>>)

\* drop(s) for a live JsString s
ActDrop ==
    /\ status = "running"
    /\ \E t \in Live :
          LET d == drop(heap, t) IN
          /\ heap' = d.heap
          /\ handles' = [handles EXCEPT ![t] = @ - 1]
          /\ status' = status
          /\ last' = OpRecord("drop", t, <<>>, NoString, 0, d.nfree)
          /\ UNCHANGED <<debug_assertions, threads>>

Next ==
    \/ ActDefault
    \/ ActFromStr
    \/ ActFromU16
    \/ ActGet
    \/ ActFromJsStr
    \/ ActFromSlice
    \/ ActConcat
    \/ ActClone
    \/ ActDrop

Spec == Init /\ [][Next]_vars

\* ------------------------------------------------------------------------
\* Reference counting (claims C1 - C4)
\* ------------------------------------------------------------------------
HeapTargets == {Ptr(a) : a \in Addrs}

\* Every block a live JsString points to is allocated and counted.
ReferencedBlocksLive ==
    \A a \in Addrs :
        /\ handles[Ptr(a)] > 0 => heap[a].live
        /\ heap[a].live => heap[a].refcount >= 1

\* A block is deallocated only by the drop that takes its count from 1 to 0,
\* and a deallocated block stays untouched until `alloc` hands it out again.
FreedOnceAtZero ==
    \A a \in Addrs :
        /\ (heap[a].live /\ ~heap'[a].live) =>
              /\ last'.op = "drop" /\ last'.arg = Ptr(a) /\ last'.nfree = 1
              /\ heap[a].refcount = 1
              /\ handles'[Ptr(a)] = 0
              /\ heap'[a] = FreeBlock
        /\ (heap[a].live /\ heap'[a].live /\ last'.op = "drop") => heap'[a].refcount >= 1
        /\ ~heap[a].live =>
              \/ heap'[a] = heap[a]
              \/ heap'[a].live /\ last'.nalloc = 1 /\ last'.res = Ptr(a)

\* C1: every block still referenced by a live JsString is allocated with
\* refcount >= 1; a block is deallocated exactly when a drop takes its
\* refcount to 0, and afterwards nothing reads, writes or frees it again.
C1_RefcountSafety == []ReferencedBlocksLive /\ [][FreedOnceAtZero]_vars

\* A drop has just deallocated a block while another block is still owned.
C1_Witness ==
    /\ last.op = "drop" /\ last.nfree = 1
    /\ ~heap[last.arg.v].live
    /\ \E a \in Addrs : handles[Ptr(a)] > 0 /\ heap[a].refcount >= 2

\* C2: for a heap string the refcount read through any handle equals the
\* number of live handles of the block, so each clone adds exactly one, each
\* drop removes exactly one, and N clones undone by N drops restore it.
C2_RefcountIsHandleCount ==
    \A t \in HeapTargets : handles[t] > 0 => refcount(heap, t) = handles[t]

\* A clone has been dropped again: the count is back at two after three.
C2_Witness ==
    /\ last.op = "drop" /\ last.nfree = 0 /\ ~is_tagged(last.arg)
    /\ handles[last.arg] = 2 /\ refcount(heap, last.arg) = 2

\* What cloning or dropping a static string must leave alone.
StaticCloneDropNoOp ==
    /\ (last'.op = "clone" /\ is_tagged(last'.arg)) =>
          /\ heap' = heap
          /\ last'.res = last'.arg
          /\ refcount(heap, last'.arg) = "Absent" /\ refcount(heap', last'.res) = "Absent"
          /\ last'.nalloc = 0 /\ last'.nfree = 0
          /\ handles' = [handles EXCEPT ![last'.arg] = @ + 1]
          /\ status' = "running"
    /\ (last'.op = "drop" /\ is_tagged(last'.arg)) =>
          /\ heap' = heap
          /\ last'.nalloc = 0 /\ last'.nfree = 0
          /\ handles' = [handles EXCEPT ![last'.arg] = @ - 1]
          /\ status' = "running"

\* C3: cloning or dropping a static (tagged index) string changes no block,
\* no counter and allocates or frees nothing; it has no refcount before and
\* after, and the clone carries the same tagged index.
C3_StaticCloneDropNoOp == [][StaticCloneDropNoOp]_vars

\* A static string other than the empty one has been cloned while a heap
\* block is alive.
C3_Witness ==
    /\ last.op = "clone" /\ last.arg = Tag(1) /\ last.res = Tag(1)
    /\ handles[Tag(1)] >= 2
    /\ \E a \in Addrs : heap[a].live

\* A clone at the maximum count aborts and writes nothing.
CloneAtMaxAborts ==
    (/\ last'.op = "clone" /\ ~is_tagged(last'.arg)
     /\ heap[last'.arg.v].refcount = RefcountMax) =>
        /\ status' = "abort"
        /\ heap' = heap
        /\ handles' = handles
        /\ last'.res = NoString

\* The stored count never wraps below the number of live handles.
RefcountNeverWrapped ==
    \A a \in Addrs : heap[a].live => heap[a].refcount >= 1 /\ heap[a].refcount >= handles[Ptr(a)]

\* C4: cloning a heap string whose refcount is at the maximum aborts the
\* process, and the stored refcount is never a wrapped value.
C4_CloneOverflowAborts == []RefcountNeverWrapped /\ [][CloneAtMaxAborts]_vars

\* The process aborted in a clone of a block whose count is at the maximum.
C4_Witness ==
    /\ status = "abort" /\ last.op = "clone" /\ ~is_tagged(last.arg)
    /\ heap[last.arg.v].refcount = RefcountMax

\* ------------------------------------------------------------------------
\* Construction and interning (claims C5 - C8)
\* ------------------------------------------------------------------------
DirectOps == {"default", "From_str", "From_u16", "From_JsStr", "From_JsStringSlice"}

ConstructOps == DirectOps \cup {"concat_array"}

Registered(text) == StaticJsStrings_get_string(text) # NoString

\* C5: whatever the construction path, a result whose content is an entry of
\* the interned table is the static instance, and every block built on the
\* way has been freed when the constructor returns.
C5_InternedContentIsStatic ==
    (/\ last.op \in ConstructOps
     /\ last.res # NoString
     /\ Registered(CodeUnits(heap, last.res))) =>
        /\ is_static(last.res)
        /\ last.nfree = last.nalloc

\* C6 as stated: construction from a single ascii foreign source (narrow
\* text or UTF-16 units) that is registered performs no allocation.
C6_ForeignAsciiProbesFirst ==
    (/\ last.op \in {"From_str", "From_u16"}
     /\ status = "running"
     /\ is_ascii(last.input)
     /\ Registered(last.input)) =>
        last.nalloc = 0

\* C6 amended: narrow text is looked up before any allocation, so registered
\* narrow text is returned without allocating; a UTF-16 slice of ascii units
\* is first copied into a new block and looked up afterwards, and when it is
\* registered the static instance is returned and the block freed.
C6_NarrowProbesFirstU16BuildsFirst ==
    /\ (last.op = "From_str" /\ Registered(last.input)) =>
          /\ last.nalloc = 0 /\ last.nfree = 0
          /\ last.res = StaticJsStrings_get_string(last.input)
          /\ status = "running"
    /\ (last.op = "From_u16" /\ is_ascii(last.input) /\ Registered(last.input)) =>
          /\ last.nalloc = 1
          /\ status \in {"running", "alloc_error"}
          /\ status = "running" =>
                /\ last.res = StaticJsStrings_get_string(last.input)
                /\ last.nfree = 1
                /\ \A a \in Addrs : heap[a].live => handles[Ptr(a)] > 0

\* Registered ascii UTF-16 units were built into a block, found in the
\* table, and the block was freed.
C6_Witness ==
    /\ last.op = "From_u16" /\ last.input = <<97>>
    /\ last.res = Tag(1) /\ last.nalloc = 1 /\ last.nfree = 1
    /\ status = "running"

AllViewsEmpty(vs) == \A i \in 1..Len(vs) : JsStringSlice_len(vs[i]) = 0

AllViewsAscii(vs) == \A i \in 1..Len(vs) : JsStringSlice_is_ascii(vs[i])

\* The routes of the claim that build the empty string.
EmptyRoute ==
    \/ last.op = "default"
    \/ last.op \in {"From_str", "From_u16"} /\ last.input = <<>>
    \/ last.op = "concat_array" /\ AllViewsEmpty(last.input)

IsCanonicalEmpty(t) ==
    /\ t = EMPTY_STRING /\ t = default
    /\ len(heap, t) = 0
    /\ as_str(heap, t, debug_assertions) = ascii_unchecked(<<>>, debug_assertions)

C8_ConcatIsConcatenation ==
    (last.op = "concat_array" /\ status # "alloc_error") =>
        /\ last.res # NoString
        /\ CodeUnits(heap, last.res) = Flatten([i \in 1..Len(last.input) |-> Iter(last.input[i])])
        /\ len(heap, last.res) = SumSeq([i \in 1..Len(last.input) |-> JsStringSlice_len(last.input[i])])
        /\ StoredAscii(heap, last.res) <=> AllViewsAscii(last.input)

\* ------------------------------------------------------------------------
\* Equality, ordering and hashing across construction paths (C9, C10)
\* ------------------------------------------------------------------------
\* Two strings are indistinguishable as keys: equal, same hasher input, and
\* ordered alike against every string in `others`.
KeysAgree(H, x, y, others, dbg) ==
    /\ eq(H, x, y, dbg)
    /\ hash(H, x, dbg) = hash(H, y, dbg)
    /\ \A z \in others : cmp(H, x, z, dbg) = cmp(H, y, z, dbg)

\* A string built directly and a string built by concat_array right after
\* it (or the other way round) that hold the same units.
PathsAgree ==
    (/\ \/ last.op \in DirectOps /\ last'.op = "concat_array"
        \/ last.op = "concat_array" /\ last'.op \in DirectOps
     /\ last.res # NoString /\ last'.res # NoString
     /\ CodeUnits(heap', last.res) = CodeUnits(heap', last'.res)) =>
        KeysAgree(heap', last.res, last'.res, {t \in Targets : handles'[t] > 0}, debug_assertions)

\* C9: a string built by direct construction and one built by concatenation
\* of parts with the same content are ==, write the same hasher input, and
\* compare alike against any third string.
C9_PathsAgree == [][PathsAgree]_vars

\* C10: two live strings with the same code units write the same hasher
\* input whatever their storage, and an ascii string hashes as the byte
\* slice of its text.
C10_HashByContent ==
    /\ \A x \in Live : \A y \in Live :
          CodeUnits(heap, x) = CodeUnits(heap, y) =>
              hash(heap, x, debug_assertions) = hash(heap, y, debug_assertions)
    /\ \A x \in Live :
          StoredAscii(heap, x) => hash(heap, x, debug_assertions) = hash_u8_slice(CodeUnits(heap, x))

\* ------------------------------------------------------------------------
\* Content algorithms: decoding, search, code points
\* ------------------------------------------------------------------------
\* Option<T>: None, or Some(v).
None == [some |-> FALSE, v |-> 0]

Some(v) == [some |-> TRUE, v |-> v]

\* `CodePoint::Unicode(c)` and `CodePoint::UnpairedSurrogate(surr)`
Unicode(c) == [kind |-> "Unicode", v |-> c]

UnpairedSurrogate(surr) == [kind |-> "UnpairedSurrogate", v |-> surr]

\* The result of an operation that panicked.
Panicked == [kind |-> "Panic", v |-> 0]

\* Leading (high) and trailing (low) surrogate code units.
is_leading_surrogate(u) == u >= 55296 /\ u <= 56319

is_trailing_surrogate(u) == u >= 56320 /\ u <= 57343

\* `char::decode_utf16(units)`: the scalar values and unpaired surrogates of
\* a unit sequence, left to right.
RECURSIVE decode_utf16(_)
decode_utf16(u) ==
    IF u = <<>> THEN <<>>
    ELSE LET first == Head(u) IN
         IF ~is_leading_surrogate(first) /\ ~is_trailing_surrogate(first)
         THEN <<Unicode(first)>> \o decode_utf16(Tail(u))
         ELSE IF is_trailing_surrogate(first)
         THEN <<UnpairedSurrogate(first)>> \o decode_utf16(Tail(u))
         ELSE IF Len(u) < 2 \/ ~is_trailing_surrogate(u[2])
         THEN <<UnpairedSurrogate(first)>> \o decode_utf16(Tail(u))
         ELSE <<Unicode(65536 + (first - 55296) * 1024 + (u[2] - 56320))>>
                  \o decode_utf16(Tail(Tail(u)))

\* `CodePoint::code_unit_count`: `char::len_utf16` for a scalar value.
code_unit_count(cp) ==
    IF cp.kind = "Unicode" THEN (IF cp.v >= 65536 THEN 2 ELSE 1) ELSE 1

\* `JsString::code_points`
code_points(H, t, dbg) == decode_utf16(to_vec(H, t, dbg))

\* `String::from_utf16(v)`: the text as scalar values, or FromUtf16Error.
String_from_utf16(v) ==
    LET cps == decode_utf16(v) IN
    IF \E i \in 1..Len(cps) : cps[i].kind = "UnpairedSurrogate"
    THEN [kind |-> "Err", text |-> <<>>]
    ELSE [kind |-> "Ok", text |-> [i \in 1..Len(cps) |-> cps[i].v]]

\* Variant of to_std_string that replaces unpaired surrogates by U+FFFD.
to_std_string_lossy(H, t, dbg) ==
    LET s == as_str(H, t, dbg)
        cps == decode_utf16(s.data)
    IN  CASE s.variant = "Panic" -> [kind |-> "Panic", text |-> <<>>]
          [] s.variant = "Ascii" -> [kind |-> "Ok", text |-> s.data]
          [] s.variant = "U16" ->
                [kind |-> "Ok",
                 text |-> [i \in 1..Len(cps) |->
                              IF cps[i].kind = "Unicode" THEN cps[i].v ELSE 65533]]

\* `JsString::to_std_string`
to_std_string(H, t, dbg) ==
    LET s == as_str(H, t, dbg) IN
    CASE s.variant = "Panic" -> [kind |-> "Panic", text |-> <<>>]
      [] s.variant = "Ascii" -> [kind |-> "Ok", text |-> s.data]
      [] s.variant = "U16" -> String_from_utf16(s.data)

\* `slice::windows(n)` for n > 0
slice_windows(s, n) ==
    IF Len(s) < n THEN <<>> ELSE [i \in 1..(Len(s) - n + 1) |-> SubSeq(s, i, i + n - 1)]

\* `Iterator::skip(n)`
Iterator_skip(s, n) == IF n >= Len(s) THEN <<>> ELSE SubSeq(s, n + 1, Len(s))

\* `Iterator::position(|s| s == x)`
Iterator_position(s, x) ==
    IF \E i \in 1..Len(s) : s[i] = x
    THEN Some((CHOOSE i \in 1..Len(s) : s[i] = x /\ \A j \in 1..(i - 1) : s[j] # x) - 1)
    ELSE None

\* Variant of index_of that reports the position inside the skipped windows.
index_of_no_offset(H, t, search_value, from_index, dbg) ==
    LET this == Iter(JsStringSlice_from_JsStr(as_str(H, t, dbg), dbg))
        needle == Iter(JsStringSlice_from_JsStr(search_value, dbg))
    IN  IF as_str(H, t, dbg).variant = "Panic" THEN Panicked
        ELSE IF needle = <<>>
        THEN (IF from_index <= len(H, t) THEN Some(from_index) ELSE None)
        ELSE Iterator_position(Iterator_skip(slice_windows(this, Len(needle)), from_index), needle)

\* `JsString::index_of(search_value, from_index)`
index_of(H, t, search_value, from_index, dbg) ==
    LET this == Iter(JsStringSlice_from_JsStr(as_str(H, t, dbg), dbg))
        needle == Iter(JsStringSlice_from_JsStr(search_value, dbg))
        found == Iterator_position(Iterator_skip(slice_windows(this, Len(needle)), from_index), needle)
    IN  IF as_str(H, t, dbg).variant = "Panic" THEN Panicked
        ELSE IF needle = <<>>
        THEN (IF from_index <= len(H, t) THEN Some(from_index) ELSE None)
        ELSE IF found.some THEN Some(found.v + from_index) ELSE None

\* Variant of code_point_at that decodes the unit at `position` on its own.
code_point_at_single(H, t, position, dbg) ==
    IF ~(position < len(H, t)) THEN Panicked
    ELSE Head(decode_utf16(SubSeq(to_vec(H, t, dbg), position + 1, position + 1)))

\* `JsString::code_point_at(position)`
code_point_at(H, t, position, dbg) ==
    IF ~(position < len(H, t)) THEN Panicked
    ELSE LET v == to_vec(H, t, dbg)
             code_point == IF position + 2 <= Len(v)
                           THEN SubSeq(v, position + 1, position + 2)
                           ELSE SubSeq(v, position + 1, position + 1)
         IN  Head(decode_utf16(code_point))

\* ------------------------------------------------------------------------
\* Whitespace trimming
\* ------------------------------------------------------------------------
\* `is_trimmable_whitespace(c)` (slice.rs): the ECMAScript white space and
\* line terminator code points.
is_trimmable_whitespace(c) ==
    \/ c \in {9, 11, 12, 32, 160, 65279}
    \/ c = 5760
    \/ (c >= 8192 /\ c <= 8202)
    \/ c \in {8239, 8287, 12288}
    \/ c \in {10, 13, 8232, 8233}

\* `builtins::string::is_trimmable_whitespace`, the predicate `to_number`
\* imports: the same code point set.
builtins_string_is_trimmable_whitespace(c) == is_trimmable_whitespace(c)

\* `char::is_whitespace`: the Unicode White_Space property, which `str::trim_start`
\* and `str::trim_end` use.
char_is_whitespace(c) ==
    \/ (c >= 9 /\ c <= 13)
    \/ c \in {32, 133, 160, 5760}
    \/ (c >= 8192 /\ c <= 8202)
    \/ c \in {8232, 8233, 8239, 8287, 12288}

\* `char::from_u32(u32::from(r)).map(is_trimmable_whitespace).unwrap_or_default()`:
\* a surrogate unit is no char and so is not trimmable.
unit_is_trimmable(r) ==
    ~is_leading_surrogate(r) /\ ~is_trailing_surrogate(r) /\ is_trimmable_whitespace(r)

\* Index (from 1) of the first / last element that `P` rejects, 0 when none.
FirstNot(s, P(_)) ==
    IF \E i \in 1..Len(s) : ~P(s[i])
    THEN CHOOSE i \in 1..Len(s) : ~P(s[i]) /\ \A j \in 1..(i - 1) : P(s[j])
    ELSE 0

LastNot(s, P(_)) ==
    IF \E i \in 1..Len(s) : ~P(s[i])
    THEN CHOOSE i \in 1..Len(s) : ~P(s[i]) /\ \A j \in (i + 1)..Len(s) : P(s[j])
    ELSE 0

\* `str::trim_start` / `str::trim_end` on text given as scalar values.
str_trim_start(s) ==
    IF FirstNot(s, char_is_whitespace) = 0 THEN <<>>
    ELSE SubSeq(s, FirstNot(s, char_is_whitespace), Len(s))

str_trim_end(s) == SubSeq(s, 1, LastNot(s, char_is_whitespace))

\* `str::trim_matches(pat)` for a predicate on chars.
str_trim_matches(s, pat(_)) ==
    IF FirstNot(s, pat) = 0 THEN <<>> ELSE SubSeq(s, FirstNot(s, pat), LastNot(s, pat))

\* Variant of trim_start for UTF-16 views that keeps the origin's tag.
trim_start_keep_tag(s, dbg) ==
    CASE s.variant = "U8Ascii" -> u8_ascii_unchecked(str_trim_start(s.data), dbg)
      [] s.variant = "U8NonAscii" -> JsStringSlice_from_str(str_trim_start(s.data), dbg)
      [] s.variant \in {"U16Ascii", "U16NonAscii"} ->
            LET left == FirstNot(s.data, unit_is_trimmable) IN
            IF left = 0 THEN u8_ascii_unchecked(<<>>, dbg)
            ELSE [variant |-> s.variant, data |-> SubSeq(s.data, left, Len(s.data))]
      [] OTHER -> PanicView

\* `JsStringSlice::trim_start`
trim_start(s, dbg) ==
    CASE s.variant = "U8Ascii" -> u8_ascii_unchecked(str_trim_start(s.data), dbg)
      [] s.variant = "U8NonAscii" -> JsStringSlice_from_str(str_trim_start(s.data), dbg)
      [] s.variant = "U16Ascii" ->
            LET left == FirstNot(s.data, unit_is_trimmable) IN
            IF left = 0 THEN u8_ascii_unchecked(<<>>, dbg)
            ELSE u16_ascii_unchecked(SubSeq(s.data, left, Len(s.data)), dbg)
      [] s.variant = "U16NonAscii" ->
            LET left == FirstNot(s.data, unit_is_trimmable) IN
            IF left = 0 THEN u8_ascii_unchecked(<<>>, dbg)
            ELSE JsStringSlice_from_u16(SubSeq(s.data, left, Len(s.data)), dbg)
      [] OTHER -> PanicView

\* `JsStringSlice::trim_end`
trim_end(s, dbg) ==
    CASE s.variant = "U8Ascii" -> u8_ascii_unchecked(str_trim_end(s.data), dbg)
      [] s.variant = "U8NonAscii" -> JsStringSlice_from_str(str_trim_end(s.data), dbg)
      [] s.variant = "U16Ascii" ->
            LET right == LastNot(s.data, unit_is_trimmable) IN
            IF right = 0 THEN u8_ascii_unchecked(<<>>, dbg)
            ELSE u16_ascii_unchecked(SubSeq(s.data, 1, right), dbg)
      [] s.variant = "U16NonAscii" ->
            LET right == LastNot(s.data, unit_is_trimmable) IN
            IF right = 0 THEN u8_ascii_unchecked(<<>>, dbg)
            ELSE JsStringSlice_from_u16(SubSeq(s.data, 1, right), dbg)
      [] OTHER -> PanicView

\* `JsStr::trim_start` / `JsStr::trim_end`
JsStr_trim_start(str, dbg) ==
    IF str.variant = "Panic" THEN PanicView
    ELSE trim_start(JsStringSlice_from_JsStr(str, dbg), dbg)

JsStr_trim_end(str, dbg) ==
    IF str.variant = "Panic" THEN PanicView
    ELSE trim_end(JsStringSlice_from_JsStr(str, dbg), dbg)

\* `JsString::trim_start` / `JsString::trim_end`
JsString_trim_start(H, t, dbg) == JsStr_trim_start(as_str(H, t, dbg), dbg)

JsString_trim_end(H, t, dbg) == JsStr_trim_end(as_str(H, t, dbg), dbg)

\* ------------------------------------------------------------------------
\* Numeric coercion (StringToNumber)
\* ------------------------------------------------------------------------
\* f64 values: not-a-number, the infinities, and the numbers of the model
\* (integers small enough to be exact in an f64).
f64_NAN == [kind |-> "NaN", v |-> 0]

f64_INFINITY == [kind |-> "Infinity", v |-> 1]

f64_NEG_INFINITY == [kind |-> "Infinity", v |-> -1]

f64_from(v) == [kind |-> "Num", v |-> v]

\* u32::MAX, scaled down so that texts of three digits overflow the fast path.
U32_MAX == 255

\* The bytes of `char::encode_utf8` for one scalar value.
encode_utf8_char(c) ==
    IF c < 128 THEN <<c>>
    ELSE IF c < 2048 THEN <<192 + (c \div 64), 128 + (c % 64)>>
    ELSE IF c < 65536
    THEN <<224 + (c \div 4096), 128 + ((c \div 64) % 64), 128 + (c % 64)>>
    ELSE <<240 + (c \div 262144), 128 + ((c \div 4096) % 64),
           128 + ((c \div 64) % 64), 128 + (c % 64)>>

\* `str::bytes()`: the UTF-8 bytes of text given as scalar values.
RECURSIVE str_bytes(_)
str_bytes(s) ==
    IF s = <<>> THEN <<>> ELSE encode_utf8_char(Head(s)) \o str_bytes(Tail(s))

\* `char::to_digit(radix)` for the char of a byte: None is -1.
to_digit(c, radix) ==
    LET d == IF c >= 48 /\ c <= 57 THEN c - 48
             ELSE IF c >= 97 /\ c <= 122 THEN c - 97 + 10
             ELSE IF c >= 65 /\ c <= 90 THEN c - 65 + 10
             ELSE radix
    IN  IF d < radix THEN d ELSE -1

\* The checked accumulation of `from_str_radix`: -1 on an invalid digit or
\* on overflow of the u32.
RECURSIVE checked_digits(_, _, _)
checked_digits(digits, radix, acc) ==
    IF digits = <<>> THEN acc
    ELSE IF to_digit(Head(digits), radix) = -1 THEN -1
    ELSE IF acc * radix + to_digit(Head(digits), radix) > U32_MAX THEN -1
    ELSE checked_digits(Tail(digits), radix, acc * radix + to_digit(Head(digits), radix))

\* `u32::from_str_radix(src, radix)`: an optional '+' and then digits.
u32_from_str_radix(src, radix) ==
    LET digits == IF src # <<>> /\ Head(src) = 43 THEN Tail(src) ELSE src
        value == checked_digits(digits, radix, 0)
    IN  IF digits = <<>> \/ value = -1 THEN None ELSE Some(value)

\* The slow path of `to_number`: value.mul_add(base, digit) for each byte.
RECURSIVE slow_path(_, _, _)
slow_path(s, base, value) ==
    IF s = <<>> THEN f64_from(value)
    ELSE IF to_digit(Head(s), base) = -1 THEN f64_NAN
    ELSE slow_path(Tail(s), base, value * base + to_digit(Head(s), base))

\* ascii lower-casing of a byte, as `eq_ignore_case` compares.
to_ascii_lowercase(b) == IF b >= 65 /\ b <= 90 THEN b + 32 ELSE b

\* "inf", "infinity" and "nan" in ascii.
Inf_bytes == <<105, 110, 102>>

Infinity_bytes == <<105, 110, 102, 105, 110, 105, 116, 121>>

Nan_bytes == <<110, 97, 110>>

\* `fast_float::parse(string)`: the decimal literals of the model are an
\* optional sign and decimal digits; "inf", "infinity" and "nan" are accepted
\* in any letter case after an optional sign; everything else is an error.
fast_float_parse(s) ==
    LET signed == s # <<>> /\ Head(s) \in {43, 45}
        negative == s # <<>> /\ Head(s) = 45
        rest == IF signed THEN Tail(s) ELSE s
        lower == [i \in 1..Len(rest) |-> to_ascii_lowercase(rest[i])]
    IN  IF rest # <<>> /\ \A i \in 1..Len(rest) : rest[i] >= 48 /\ rest[i] <= 57
        THEN Some(f64_from((IF negative THEN -1 ELSE 1) * slow_path(rest, 10, 0).v))
        ELSE IF lower = Nan_bytes THEN Some(f64_NAN)
        ELSE IF lower \in {Inf_bytes, Infinity_bytes}
        THEN Some(IF negative THEN f64_NEG_INFINITY ELSE f64_INFINITY)
        ELSE None

\* "Infinity" as scalar values.
Infinity_text == <<73, 110, 102, 105, 110, 105, 116, 121>>

\* The radix a two-byte prefix selects: 0 when it selects none.
radix_of_prefix(s) ==
    IF Len(s) >= 2 /\ s[1] = 48
    THEN (IF s[2] \in {98, 66} THEN 2
          ELSE IF s[2] \in {111, 79} THEN 8
          ELSE IF s[2] \in {120, 88} THEN 16
          ELSE 0)
    ELSE 0

\* Variant of to_number without the guard on a leading 'i' / 'I'.
to_number_no_i_guard(H, t, dbg) ==
    LET decoded == to_std_string(H, t, dbg)
        string == str_trim_matches(decoded.text, builtins_string_is_trimmable_whitespace)
        s == str_bytes(string)
        base == radix_of_prefix(s)
    IN  CASE decoded.kind = "Panic" -> Panicked
          [] decoded.kind = "Err" -> f64_NAN
          [] OTHER ->
             IF string = <<>> THEN f64_from(0)
             ELSE IF string = <<45>> \o Infinity_text THEN f64_NEG_INFINITY
             ELSE IF string = Infinity_text \/ string = <<43>> \o Infinity_text
             THEN f64_INFINITY
             ELSE IF base # 0
             THEN (IF SubSeq(s, 3, Len(s)) = <<>> THEN f64_NAN
                   ELSE IF u32_from_str_radix(SubSeq(s, 3, Len(s)), base).some
                   THEN f64_from(u32_from_str_radix(SubSeq(s, 3, Len(s)), base).v)
                   ELSE slow_path(SubSeq(s, 3, Len(s)), base, 0))
             ELSE IF fast_float_parse(s).some THEN fast_float_parse(s).v ELSE f64_NAN

\* Variant of to_number that unwraps the decoded text.
to_number_unwrap(H, t, dbg) ==
    LET decoded == to_std_string(H, t, dbg)
        string == str_trim_matches(decoded.text, builtins_string_is_trimmable_whitespace)
        s == str_bytes(string)
        base == radix_of_prefix(s)
    IN  CASE decoded.kind \in {"Panic", "Err"} -> Panicked
          [] OTHER ->
             IF string = <<>> THEN f64_from(0)
             ELSE IF string = <<45>> \o Infinity_text THEN f64_NEG_INFINITY
             ELSE IF string = Infinity_text \/ string = <<43>> \o Infinity_text
             THEN f64_INFINITY
             ELSE IF base # 0
             THEN (IF SubSeq(s, 3, Len(s)) = <<>> THEN f64_NAN
                   ELSE IF u32_from_str_radix(SubSeq(s, 3, Len(s)), base).some
                   THEN f64_from(u32_from_str_radix(SubSeq(s, 3, Len(s)), base).v)
                   ELSE slow_path(SubSeq(s, 3, Len(s)), base, 0))
             ELSE IF s[1] \in {105, 73} THEN f64_NAN
             ELSE IF fast_float_parse(s).some THEN fast_float_parse(s).v ELSE f64_NAN

\* Variant of to_number that reads a sign before a radix prefix as the sign
\* of the radix integer.
to_number_signed_radix(H, t, dbg) ==
    LET decoded == to_std_string(H, t, dbg)
        string == str_trim_matches(decoded.text, builtins_string_is_trimmable_whitespace)
        s == str_bytes(string)
        signed == s # <<>> /\ s[1] \in {43, 45} /\ radix_of_prefix(Tail(s)) # 0
        body == IF signed THEN Tail(s) ELSE s
        base == radix_of_prefix(body)
        magnitude == slow_path(SubSeq(body, 3, Len(body)), base, 0)
    IN  CASE decoded.kind = "Panic" -> Panicked
          [] decoded.kind = "Err" -> f64_NAN
          [] OTHER ->
             IF string = <<>> THEN f64_from(0)
             ELSE IF string = <<45>> \o Infinity_text THEN f64_NEG_INFINITY
             ELSE IF string = Infinity_text \/ string = <<43>> \o Infinity_text
             THEN f64_INFINITY
             ELSE IF base # 0
             THEN (IF SubSeq(body, 3, Len(body)) = <<>> THEN f64_NAN
                   ELSE IF signed /\ magnitude.kind = "Num" /\ s[1] = 45
                   THEN f64_from(-magnitude.v)
                   ELSE IF signed THEN magnitude
                   ELSE IF u32_from_str_radix(SubSeq(s, 3, Len(s)), base).some
                   THEN f64_from(u32_from_str_radix(SubSeq(s, 3, Len(s)), base).v)
                   ELSE slow_path(SubSeq(s, 3, Len(s)), base, 0))
             ELSE IF s[1] \in {105, 73} THEN f64_NAN
             ELSE IF fast_float_parse(s).some THEN fast_float_parse(s).v ELSE f64_NAN

\* `JsString::to_number`
to_number(H, t, dbg) ==
    LET decoded == to_std_string(H, t, dbg)
        string == str_trim_matches(decoded.text, builtins_string_is_trimmable_whitespace)
        s == str_bytes(string)
        base == radix_of_prefix(s)
    IN  CASE decoded.kind = "Panic" -> Panicked
          [] decoded.kind = "Err" -> f64_NAN
          [] OTHER ->
             IF string = <<>> THEN f64_from(0)
             ELSE IF string = <<45>> \o Infinity_text THEN f64_NEG_INFINITY
             ELSE IF string = Infinity_text \/ string = <<43>> \o Infinity_text
             THEN f64_INFINITY
             ELSE IF base # 0
             THEN (IF SubSeq(s, 3, Len(s)) = <<>> THEN f64_NAN
                   ELSE IF u32_from_str_radix(SubSeq(s, 3, Len(s)), base).some
                   THEN f64_from(u32_from_str_radix(SubSeq(s, 3, Len(s)), base).v)
                   ELSE slow_path(SubSeq(s, 3, Len(s)), base, 0))
             ELSE IF s[1] \in {105, 73} THEN f64_NAN
             ELSE IF fast_float_parse(s).some THEN fast_float_parse(s).v ELSE f64_NAN

\* ------------------------------------------------------------------------
\* The code unit iterator (`enum Iter`)
\* ------------------------------------------------------------------------
\* `Iter::new(s)`: the inner iterator (its remaining items) and, for narrow
\* non-ascii text, the length stored beside it.
Iter_new(s) ==
    CASE s.variant = "U8Ascii" -> [variant |-> "Ascii", rest |-> s.data, len |-> 0]
      [] s.variant = "U8NonAscii" ->
            [variant |-> "U8", rest |-> encode_utf16(s.data), len |-> JsStringSlice_len(s)]
      [] OTHER -> [variant |-> "U16", rest |-> s.data, len |-> 0]

\* `Iterator::next` for Iter: the item and the advanced iterator.
Iter_next(self) ==
    IF self.rest = <<>> THEN [item |-> None, iter |-> self]
    ELSE [item |-> Some(Head(self.rest)), iter |-> [self EXCEPT !.rest = Tail(@)]]

\* `ExactSizeIterator::len` for Iter
Iter_len(self) ==
    IF self.variant = "U8" THEN self.len ELSE Len(self.rest)

\* ------------------------------------------------------------------------
\* Comparison with narrow text
\* ------------------------------------------------------------------------
\* The loop of `impl PartialEq<str> for JsString`: `utf16` are the remaining
\* code points of the string, `utf8` the remaining chars of the text.
RECURSIVE eq_str_loop(_, _)
eq_str_loop(utf16, utf8) ==
    IF utf16 = <<>> THEN utf8 = <<>>
    ELSE IF utf8 # <<>>
         THEN (IF Head(utf16).kind = "Unicode" /\ Head(utf16).v = Head(utf8)
               THEN eq_str_loop(Tail(utf16), Tail(utf8))
               ELSE FALSE)
         ELSE FALSE

\* Variant of eq_str that stops at the end of the string without asking
\* whether the text has ended too.
eq_str_accept_prefix(H, t, other, dbg) ==
    LET s == as_str(H, t, dbg)
        cps == code_points(H, t, dbg)
    IN  CASE as_ascii(s) -> s.data = SubSeq(str_bytes(other), 1, Len(s.data))
          [] OTHER ->
                /\ Len(cps) <= Len(other)
                /\ \A i \in 1..Len(cps) : cps[i].kind = "Unicode" /\ cps[i].v = other[i]

\* `impl PartialEq<str> for JsString`: `other` is text as scalar values;
\* the caller handles a panic of as_str.
eq_str(H, t, other, dbg) ==
    LET s == as_str(H, t, dbg) IN
    CASE as_ascii(s) -> s.data = str_bytes(other)
      [] OTHER -> eq_str_loop(code_points(H, t, dbg), other)

\* ------------------------------------------------------------------------
\* Escaped display conversion
\* ------------------------------------------------------------------------
\* One upper-case hexadecimal digit as its ascii code.
hex_digit(d) == IF d < 10 THEN 48 + d ELSE 65 + (d - 10)

\* Variant of format_escape that writes lower-case hexadecimal digits.
format_escape_lower(surr) ==
    <<92, 117, hex_digit(surr \div 4096) + (IF surr \div 4096 >= 10 THEN 32 ELSE 0),
      hex_digit((surr \div 256) % 16) + (IF (surr \div 256) % 16 >= 10 THEN 32 ELSE 0),
      hex_digit((surr \div 16) % 16) + (IF (surr \div 16) % 16 >= 10 THEN 32 ELSE 0),
      hex_digit(surr % 16) + (IF surr % 16 >= 10 THEN 32 ELSE 0)>>

\* `format!("\\u{:04X}", surr)`: backslash, 'u', four upper-case hex digits.
format_escape(surr) ==
    <<92, 117, hex_digit(surr \div 4096), hex_digit((surr \div 256) % 16),
      hex_digit((surr \div 16) % 16), hex_digit(surr % 16)>>

\* `impl ToStringEscaped for [u16]`
u16_to_string_escaped(v) ==
    LET cps == decode_utf16(v) IN
    Flatten([i \in 1..Len(cps) |->
                IF cps[i].kind = "Unicode" THEN <<cps[i].v>> ELSE format_escape(cps[i].v)])

\* `impl ToStringEscaped for JsString` / `JsString::to_std_string_escaped`
to_std_string_escaped(H, t, dbg) ==
    LET s == as_str(H, t, dbg) IN
    CASE s.variant = "Panic" -> [kind |-> "Panic", text |-> <<>>]
      [] s.variant = "Ascii" -> [kind |-> "Ok", text |-> s.data]
      [] s.variant = "U16" -> [kind |-> "Ok", text |-> u16_to_string_escaped(s.data)]

\* ------------------------------------------------------------------------
\* Indexed access
\* ------------------------------------------------------------------------
\* `impl JsSliceIndex for usize`: the unit at `index` (an ascii byte is
\* widened), or None.
JsSliceIndex_get_index(value, index) ==
    IF index < Len(value.data) THEN Some(value.data[index + 1]) ELSE None

\* `JsString::get(index)` for a usize; Panicked when as_str panics.
get(H, t, index, dbg) ==
    IF as_str(H, t, dbg).variant = "Panic" THEN Panicked
    ELSE JsSliceIndex_get_index(as_str(H, t, dbg), index)

\* `JsString::get(start..end)`: a JsStr, AbsentView for None, PanicView.
get_range(H, t, start, end, dbg) ==
    IF as_str(H, t, dbg).variant = "Panic" THEN PanicView
    ELSE JsSliceIndex_get_range(as_str(H, t, dbg), start, end, dbg)

\* `JsString::get_expect(index)`: `.expect("Index out of bounds")`.
get_expect(H, t, index, dbg) ==
    IF get(H, t, index, dbg) = None THEN Panicked ELSE get(H, t, index, dbg)

\* `JsString::get_expect(start..end)`
get_expect_range(H, t, start, end, dbg) ==
    IF get_range(H, t, start, end, dbg) = AbsentView THEN PanicView
    ELSE get_range(H, t, start, end, dbg)

\* ------------------------------------------------------------------------
\* The query state machine: a program that builds one string and applies
\* the content algorithms to it
\* ------------------------------------------------------------------------
\* Longest enumerated text, in code units.
MaxLen == 2

\* Longest enumerated run of digits and signs after a radix prefix.
MaxDigits == 3

\* Code units of the enumerated texts: 'a', space, U+0085, U+FEFF, and the
\* surrogate pair of U+1F600.
QueryUnits == {97, 32, 133, 65279, 55357, 56832}

\* Scalar values of the enumerated narrow texts.
QueryChars == {97, 32, 133, 65279, 128512}

\* Digits and signs after a radix prefix: '1', '7', 'F', '+'.
RadixChars == {49, 55, 70, 43}

\* "0b", "0B", "0o", "0O", "0x", "0X"
RadixPrefixes == {<<48, 98>>, <<48, 66>>, <<48, 111>>, <<48, 79>>, <<48, 120>>, <<48, 88>>}

\* Texts with a radix prefix, some wrapped in white space.
RadixTexts ==
    {p \o r : p \in RadixPrefixes, r \in SeqsUpTo(RadixChars, MaxDigits)}
    \cup {<<32, 32>> \o p \o <<49, 70, 32>> : p \in RadixPrefixes}
    \cup {<<65279>> \o p \o <<49>> : p \in RadixPrefixes}
    \cup {<<s>> \o p \o <<49, 49>> : s \in {43, 45}, p \in RadixPrefixes}

\* Texts around "Infinity" and decimal literals.
LiteralTexts ==
    {Infinity_text, <<43>> \o Infinity_text, <<45>> \o Infinity_text,
     <<32>> \o Infinity_text \o <<10>>, <<65279, 45>> \o Infinity_text \o <<8233>>,
     Infinity_text \o <<49>>, <<73>>, <<105>>, <<73, 110, 102>>, <<105, 110, 102>>,
     <<105, 110, 102, 105, 110, 105, 116, 121>>, <<73, 49>>, <<32, 105>>,
     <<49, 50>>, <<45, 49, 50>>, <<43, 55>>, <<32, 55, 32>>, <<97, 98, 99>>,
     <<110, 97, 110>>, <<45, 105, 110, 102>>, <<133, 49>>, <<49, 233>>}

\* Narrow texts (scalar values) the program builds a string from.
QueryStrInputs ==
    {s \in SeqsUpTo(QueryChars, MaxLen) : Len(encode_utf16(s)) <= MaxLen}
    \cup RadixTexts \cup LiteralTexts

\* UTF-16 slices the program builds a string from.
QueryU16Inputs == SeqsUpTo(QueryUnits, MaxLen)

\* A JsStr over given units, classified as `as_str` classifies a string.
JsStr_of(units) ==
    [variant |-> IF is_ascii(units) THEN "Ascii" ELSE "U16", data |-> units]

\* The needles of index_of.
Needles == {JsStr_of(u) : u \in SeqsUpTo({97, 65279}, MaxLen)}

\* A query: the heap and the handles stay as they are.
Query(op, t, input, res, panicked) ==
    /\ heap' = heap
    /\ handles' = handles
    /\ status' = IF panicked THEN "panic" ELSE "running"
    /\ last' = OpRecord(op, t, input, res, 0, 0)
    /\ UNCHANGED <<debug_assertions, threads>>

\* The enumerated strings: short enough for the operations with many arguments.
Short == {t \in Live : len(heap, t) <= MaxLen}

\* What `alloc` returns to the program: the lowest free address, or null.
QueryAlloc ==
    {a \in Addrs : ~heap[a].live /\ \A b \in 1..(a - 1) : heap[b].live} \cup {NullAddr}

\* The program has just built its string and not yet queried it.
Fresh == status = "running" /\ last.op \in {"From_str", "From_u16"}

\* JsString::from(s) for narrow text s, as the first string of the program
QueryFromStr ==
    /\ status = "running" /\ Live = {}
    /\ \E s \in QueryStrInputs, a \in QueryAlloc :
          Finish(From_str(heap, a, s, debug_assertions), "From_str", NoString, s)

\* JsString::from(s) for a UTF-16 slice s, as the first string of the program
QueryFromU16 ==
    /\ status = "running" /\ Live = {}
    /\ \E s \in QueryU16Inputs, a \in QueryAlloc :
          Finish(From_u16(heap, a, s, debug_assertions), "From_u16", NoString, s)

\* s.index_of(needle, from_index)
QueryIndexOf ==
    /\ Fresh
    /\ \E t \in Short, needle \in Needles, from_index \in 0..(MaxLen + 1) :
          LET r == index_of(heap, t, needle, from_index, debug_assertions) IN
          Query("index_of", t, <<needle, from_index>>, r, r = Panicked)

\* s.code_point_at(position)
QueryCodePointAt ==
    /\ Fresh
    /\ \E t \in Live : \E pos \in 0..len(heap, t) :
          LET cp == code_point_at(heap, t, pos, debug_assertions) IN
          Query("code_point_at", t, pos, cp, cp = Panicked)

\* s.to_number()
QueryToNumber ==
    /\ Fresh
    /\ \E t \in Live :
          LET n == to_number(heap, t, debug_assertions) IN
          Query("to_number", t, <<>>, n, n = Panicked)

\* s.to_std_string()
QueryToStdString ==
    /\ Fresh
    /\ \E t \in Live :
          LET r == to_std_string(heap, t, debug_assertions) IN
          Query("to_std_string", t, <<>>, r, r.kind = "Panic")

\* s.to_std_string_escaped()
QueryToStdStringEscaped ==
    /\ Fresh
    /\ \E t \in Live :
          LET r == to_std_string_escaped(heap, t, debug_assertions) IN
          Query("to_std_string_escaped", t, <<>>, r, r.kind = "Panic")

\* The views with the content of a live string: its own JsStr, and foreign
\* narrow text and UTF-16 units holding the same text.
ViewsOf(t) ==
    {v \in {JsStringSlice_from_JsStr(as_str(heap, t, debug_assertions), debug_assertions),
            JsStringSlice_from_u16(CodeUnits(heap, t), debug_assertions)}
           \cup {JsStringSlice_from_str(s, debug_assertions) :
                    s \in {x \in QueryStrInputs : encode_utf16(x) = CodeUnits(heap, t)}} :
        v.variant # "Panic"}

\* v.trim_start() for a view v
QueryTrimStart ==
    /\ Fresh
    /\ \E t \in Live : \E v \in ViewsOf(t) :
          LET r == trim_start(v, debug_assertions) IN
          Query("trim_start", t, v, r, r = PanicView)

\* v.trim_end() for a view v
QueryTrimEnd ==
    /\ Fresh
    /\ \E t \in Live : \E v \in ViewsOf(t) :
          LET r == trim_end(v, debug_assertions) IN
          Query("trim_end", t, v, r, r = PanicView)

\* js_string!(s.trim_start()): a second string built from the trimmed view
QueryFromTrimStart ==
    /\ Fresh
    /\ \E t \in Live, a \in QueryAlloc :
          LET v == JsString_trim_start(heap, t, debug_assertions) IN
          IF v = PanicView
          THEN Query("From_trim_start", t, v, NoString, TRUE)
          ELSE Finish(From_JsStringSlice(heap, a, v, debug_assertions), "From_trim_start", t, v)

\* s.get(index) and s.get_expect(index) for a code unit index
QueryGet ==
    /\ Fresh
    /\ \E t \in Short : \E index \in 0..(len(heap, t) + 1) :
          \/ LET r == get(heap, t, index, debug_assertions) IN
             Query("get", t, index, r, r = Panicked)
          \/ LET r == get_expect(heap, t, index, debug_assertions) IN
             Query("get_expect", t, index, r, r = Panicked)

\* s.get(start..end) and s.get_expect(start..end)
QueryGetRange ==
    /\ Fresh
    /\ \E t \in Short : \E start \in 0..(len(heap, t) + 1), end \in 0..(len(heap, t) + 1) :
          \/ LET r == get_range(heap, t, start, end, debug_assertions) IN
             Query("get_range", t, <<start, end>>, r, r = PanicView)
          \/ LET r == get_expect_range(heap, t, start, end, debug_assertions) IN
             Query("get_expect_range", t, <<start, end>>, r, r = PanicView)

\* What the program holds while it iterates: the iterator, the items the
\* next() calls have returned so far, and what len() reports now.
Iterating(iter, yielded) ==
    [iter |-> iter, yielded |-> yielded, len |-> Iter_len(iter)]

\* v.iter() for a view v: on a fresh string, or again while iterating
QueryIter ==
    \/ /\ Fresh
       /\ \E t \in Short : \E v \in ViewsOf(t) :
             Query("iter", t, v, Iterating(Iter_new(v), <<>>), FALSE)
    \/ /\ status = "running" /\ last.op = "next"
       /\ Query("iter", last.arg, last.input, Iterating(Iter_new(last.input), <<>>), FALSE)

\* it.next() followed by it.len(), up to two calls past the end
QueryIterNext ==
    /\ status = "running" /\ last.op \in {"iter", "next"}
    /\ Len(last.res.yielded) < JsStringSlice_len(last.input) + 2
    /\ LET n == Iter_next(last.res.iter) IN
       Query("next", last.arg, last.input,
             Iterating(n.iter, Append(last.res.yielded, n.item)), FALSE)

\* The narrow texts a string is compared with: over 'a', U+FEFF, U+1F600.
CompareTexts == SeqsUpTo({97, 65279, 128512}, MaxLen)

\* s == text for narrow text
QueryEqStr ==
    /\ Fresh
    /\ \E t \in Short : \E other \in CompareTexts :
          IF as_str(heap, t, debug_assertions).variant = "Panic"
          THEN Query("eq_str", t, other, Panicked, TRUE)
          ELSE Query("eq_str", t, other, eq_str(heap, t, other, debug_assertions), FALSE)

NextQuery ==
    \/ QueryFromStr
    \/ QueryFromU16
    \/ QueryIndexOf
    \/ QueryCodePointAt
    \/ QueryToNumber
    \/ QueryToStdString
    \/ QueryToStdStringEscaped
    \/ QueryTrimStart
    \/ QueryTrimEnd
    \/ QueryFromTrimStart
    \/ QueryGet
    \/ QueryGetRange
    \/ QueryEqStr
    \/ QueryIter
    \/ QueryIterNext

SpecQuery == Init /\ [][NextQuery]_vars

\* ------------------------------------------------------------------------
\* The allocation state machine: a program that builds one string at a time
\* from views whose lengths reach the limits of the address width
\* ------------------------------------------------------------------------
\* Longest list of views passed to concat_array here.
MaxConcat == 3

Repeat(unit, n) == [i \in 1..n |-> unit]

\* The longest ascii and UTF-16 strings whose block layout is valid.
AsciiFit == max_size_for_align(RawJsString_align) - DATA_OFFSET

WideFit == AsciiFit \div 2

\* Views of foreign text of 'a' or U+00E9 repeated, of lengths around the
\* limits: byte slices up to isize::MAX bytes, u16 slices up to half of it.
LongViews ==
    {v \in {JsStringSlice_from_str(Repeat(97, n), debug_assertions) :
                n \in {0, 1, 2, AsciiFit, AsciiFit + 1, ISIZE_MAX}}
           \cup {JsStringSlice_from_u16(Repeat(u, n), debug_assertions) :
                    u \in {97, 233}, n \in {1, WideFit, WideFit + 1, ISIZE_MAX \div 2}}
           \cup {JsStringSlice_from_str(Repeat(233, n), debug_assertions) :
                    n \in {WideFit, WideFit + 1}} :
        v.variant # "Panic"}

\* The views handed to concat_array.
ConcatViews ==
    {v \in LongViews : JsStringSlice_len(v) \in {0, 2, WideFit, ISIZE_MAX \div 2, ISIZE_MAX}}

\* JsString::from(v) for a long view v
AllocFromSlice ==
    /\ status = "running" /\ Live = {}
    /\ \E v \in LongViews, a \in QueryAlloc :
          Finish(From_JsStringSlice(heap, a, v, debug_assertions), "From_JsStringSlice", NoString, v)

\* JsString::concat_array(strings) for long views
AllocConcat ==
    /\ status = "running" /\ Live = {}
    /\ \E vs \in SeqsUpTo(ConcatViews, MaxConcat), a \in QueryAlloc :
          Finish(concat_array(heap, a, vs, debug_assertions), "concat_array", NoString, vs)

\* drop(s): the record keeps the header of the block as drop found it and
\* the layout drop handed to dealloc.
AllocDrop ==
    /\ status = "running"
    /\ \E t \in Live :
          LET d == drop(heap, t) IN
          /\ heap' = d.heap
          /\ handles' = [handles EXCEPT ![t] = @ - 1]
          /\ status' = status
          /\ last' = OpRecord("drop", t,
                              [inner |-> IF is_tagged(t) THEN FreeBlock ELSE heap[t.v],
                               layout |-> d.layout],
                              NoString, 0, d.nfree)
          /\ UNCHANGED <<debug_assertions, threads>>

NextAlloc ==
    \/ AllocFromSlice
    \/ AllocConcat
    \/ AllocDrop

SpecAlloc == Init /\ [][NextAlloc]_vars

\* ------------------------------------------------------------------------
\* The sharing state machine: threads that clone and drop handles of one
\* heap block, each clone and drop a sequence of reads and writes of the
\* plain `Cell<usize>` refcount
\* ------------------------------------------------------------------------
\* Number of threads.
MaxThreads == 2

Threads == 1..MaxThreads

\* The shared block: the string U+00E9, which is not interned.
Shared == Ptr(1)

\* `inner.refcount.get()`
refcount_get(H, t) == H[t.v].refcount

\* Variant of refcount_set that loses the store.
refcount_set_lost(H, t, v) == H

\* `inner.refcount.set(v)`
refcount_set(H, t, v) == [H EXCEPT ![t.v].refcount = v]

\* The main thread has built the string and handed one clone to each thread;
\* `sync` tells whether the threads serialize their clones and drops.
InitRace ==
    /\ heap = [a \in Addrs |->
                  IF a = Shared.v
                  THEN [RawJsString(1, FALSE) EXCEPT !.data = <<233>>, !.unit = 2,
                                                     !.refcount = MaxThreads]
                  ELSE FreeBlock]
    /\ handles = [t \in Targets |-> IF t = Shared THEN MaxThreads ELSE 0]
    /\ debug_assertions \in BOOLEAN
    /\ status = "running"
    /\ last = OpRecord("init", NoString, <<>>, NoString, 0, 0)
    /\ threads \in {[sync |-> b, pc |-> [th \in Threads |-> "idle"],
                     tmp |-> [th \in Threads |-> 0], own |-> [th \in Threads |-> 1]] :
                       b \in BOOLEAN}

\* With external synchronization a thread starts a clone or a drop only
\* while no other thread is inside one.
MayStart(th) ==
    threads.sync => \A o \in Threads \ {th} : threads.pc[o] = "idle"

\* One step of thread `th`: the new heap, handle count, thread record, and
\* how the process goes on.
RaceStep(op, th, H, n, T, st, nfree) ==
    /\ heap' = H
    /\ handles' = [handles EXCEPT ![Shared] = n]
    /\ threads' = T
    /\ status' = st
    /\ last' = OpRecord(op, Shared, th, NoString, 0, nfree)
    /\ UNCHANGED debug_assertions

\* A thread touches the block after another thread has freed it.
UseAfterFree(op, th) ==
    RaceStep(op, th, heap, handles[Shared], threads, "use_after_free", 0)

\* clone, first half: `let strong = inner.refcount.get().wrapping_add(1)`
\* and the abort on zero
RaceCloneRead ==
    /\ status = "running"
    /\ \E th \in Threads :
          /\ threads.pc[th] = "idle" /\ threads.own[th] > 0 /\ MayStart(th)
          /\ handles[Shared] < MaxHandles
          /\ IF ~heap[Shared.v].live THEN UseAfterFree("clone_read", th)
             ELSE LET strong == (refcount_get(heap, Shared) + 1) % (RefcountMax + 1) IN
                  IF strong = 0
                  THEN RaceStep("clone_read", th, heap, handles[Shared], threads, "abort", 0)
                  ELSE RaceStep("clone_read", th, heap, handles[Shared],
                                [threads EXCEPT !.pc[th] = "clone_write", !.tmp[th] = strong],
                                "running", 0)

\* clone, second half: `inner.refcount.set(strong)`; the thread owns one
\* handle more
RaceCloneWrite ==
    /\ status = "running"
    /\ \E th \in Threads :
          /\ threads.pc[th] = "clone_write"
          /\ IF ~heap[Shared.v].live THEN UseAfterFree("clone_write", th)
             ELSE RaceStep("clone_write", th,
                           refcount_set(heap, Shared, threads.tmp[th]),
                           handles[Shared] + 1,
                           [threads EXCEPT !.pc[th] = "idle", !.own[th] = @ + 1],
                           "running", 0)

\* drop, first part: the read of `inner.refcount.get() - 1`; the subtraction
\* panics on zero in a debug build and wraps in a release build
RaceDropRead ==
    /\ status = "running"
    /\ \E th \in Threads :
          /\ threads.pc[th] = "idle" /\ threads.own[th] > 0 /\ MayStart(th)
          /\ LET T == [threads EXCEPT !.own[th] = @ - 1] IN
             IF ~heap[Shared.v].live THEN UseAfterFree("drop_read", th)
             ELSE IF refcount_get(heap, Shared) = 0 /\ debug_assertions
             THEN RaceStep("drop_read", th, heap, handles[Shared] - 1, T, "panic", 0)
             ELSE RaceStep("drop_read", th, heap, handles[Shared] - 1,
                           [T EXCEPT !.pc[th] = "drop_write",
                                     !.tmp[th] = (refcount_get(heap, Shared) - 1)
                                                    % (RefcountMax + 1)],
                           "running", 0)

\* drop, second part: `inner.refcount.set(..)`
RaceDropWrite ==
    /\ status = "running"
    /\ \E th \in Threads :
          /\ threads.pc[th] = "drop_write"
          /\ IF ~heap[Shared.v].live THEN UseAfterFree("drop_write", th)
             ELSE RaceStep("drop_write", th,
                           refcount_set(heap, Shared, threads.tmp[th]),
                           handles[Shared],
                           [threads EXCEPT !.pc[th] = "drop_check"], "running", 0)

\* drop, last part: `if inner.refcount.get() != 0 { return; }`, else dealloc
RaceDropCheck ==
    /\ status = "running"
    /\ \E th \in Threads :
          /\ threads.pc[th] = "drop_check"
          /\ IF ~heap[Shared.v].live THEN UseAfterFree("drop_check", th)
             ELSE IF refcount_get(heap, Shared) # 0
             THEN RaceStep("drop_check", th, heap, handles[Shared],
                           [threads EXCEPT !.pc[th] = "idle"], "running", 0)
             ELSE RaceStep("drop_check", th, [heap EXCEPT ![Shared.v] = FreeBlock],
                           handles[Shared],
                           [threads EXCEPT !.pc[th] = "idle"], "running", 1)

NextRace ==
    \/ RaceCloneRead
    \/ RaceCloneWrite
    \/ RaceDropRead
    \/ RaceDropWrite
    \/ RaceDropCheck

SpecRace == InitRace /\ [][NextRace]_vars

\* ------------------------------------------------------------------------
\* Substring search and code points (C11, C12)
\* ------------------------------------------------------------------------
\* The code-unit indices i >= from_index at which `needle` occurs in `s`.
Occurrences(s, needle, from_index) ==
    {i \in from_index..Len(s) :
        /\ i + Len(needle) <= Len(s)
        /\ SubSeq(s, i + 1, i + Len(needle)) = needle}

\* C11: index_of returns the smallest index i >= from_index with
\* i + len(needle) <= len(s) where the window of s equals needle, None when
\* there is none; for the empty needle Some(from_index) iff from_index <=
\* len(s); it never panics, whatever from_index and however long the needle.
C11_IndexOfLeftmost ==
    last.op = "index_of" =>
        LET s == CodeUnits(heap, last.arg)
            needle == last.input[1].data
            from_index == last.input[2]
            found == Occurrences(s, needle, from_index)
        IN  /\ status = "running"
            /\ last.res # Panicked
            /\ found = {} => last.res = None
            /\ found # {} =>
                  /\ last.res.some /\ last.res.v \in found
                  /\ \A i \in found : last.res.v <= i
            /\ needle = <<>> => (last.res = Some(from_index) <=> from_index <= Len(s))

\* "aa".index_of("a", 1) found the second occurrence, not the first.
C11_Witness ==
    /\ last.op = "index_of"
    /\ CodeUnits(heap, last.arg) = <<97, 97>>
    /\ last.input = <<JsStr_of(<<97>>), 1>>
    /\ last.res = Some(1)

\* ECMAScript UTF16SurrogatePairToCodePoint(lead, trail)
UTF16SurrogatePairToCodePoint(lead, trail) ==
    (lead - 55296) * 1024 + (trail - 56320) + 65536

TrimmedText(H, t, dbg) ==
    str_trim_matches(to_std_string(H, t, dbg).text, is_trimmable_whitespace)

\* Whether every element of `digits` is a digit of `radix`.
AllDigits(digits, radix) ==
    \A i \in 1..Len(digits) : to_digit(digits[i], radix) # -1

\* The unsigned integer a run of digits denotes in `radix`.
RECURSIVE RadixValue(_, _)
RadixValue(digits, radix) ==
    IF digits = <<>> THEN 0
    ELSE RadixValue(SubSeq(digits, 1, Len(digits) - 1), radix) * radix
         + to_digit(digits[Len(digits)], radix)

\* C13: when the trimmed text starts with 0b/0B, 0o/0O or 0x/0X, to_number
\* returns the unsigned integer value of the remainder in radix 2/8/16 if the
\* remainder is a non-empty run of digits of that radix, and NaN for every
\* other remainder (empty, or holding any other character, such as a sign);
\* the fast path and the slow path accept the same remainders.
C13_RadixPrefix ==
    (/\ last.op = "to_number"
     /\ to_std_string(heap, last.arg, debug_assertions).kind = "Ok"
     /\ radix_of_prefix(TrimmedText(heap, last.arg, debug_assertions)) # 0) =>
        LET text == TrimmedText(heap, last.arg, debug_assertions)
            radix == radix_of_prefix(text)
            remainder == SubSeq(text, 3, Len(text))
        IN  IF remainder # <<>> /\ AllDigits(remainder, radix)
            THEN last.res = f64_from(RadixValue(remainder, radix))
            ELSE last.res = f64_NAN

\* C14: to_number trims the ECMAScript white space from both ends and then:
\* empty text gives 0; exactly "Infinity" or "+Infinity" gives +infinity;
\* exactly "-Infinity" gives -infinity; any other text whose first character
\* is 'i' or 'I' gives NaN.
C14_TrimThenInfinity ==
    (/\ last.op = "to_number"
     /\ to_std_string(heap, last.arg, debug_assertions).kind = "Ok") =>
        LET text == TrimmedText(heap, last.arg, debug_assertions) IN
        /\ text = <<>> => last.res = f64_from(0)
        /\ text \in {Infinity_text, <<43>> \o Infinity_text} => last.res = f64_INFINITY
        /\ text = <<45>> \o Infinity_text => last.res = f64_NEG_INFINITY
        /\ (text # <<>> /\ text # Infinity_text /\ Head(text) \in {105, 73}) =>
              last.res = f64_NAN

\* "-Infinity" wrapped in U+FEFF and U+2029 gave -infinity.
C14_Witness ==
    /\ last.op = "to_number"
    /\ CodeUnits(heap, last.arg) = <<65279, 45>> \o Infinity_text \o <<8233>>
    /\ last.res = f64_NEG_INFINITY

\* A lone surrogate: a leading one not followed by a trailing one, or a
\* trailing one not preceded by a leading one.
HasUnpairedSurrogate(u) ==
    \E i \in 1..Len(u) :
        \/ is_leading_surrogate(u[i]) /\ (i = Len(u) \/ ~is_trailing_surrogate(u[i + 1]))
        \/ is_trailing_surrogate(u[i]) /\ (i = 1 \/ ~is_leading_surrogate(u[i - 1]))

\* C15: to_number is total: for every JsString it returns a number without
\* panicking or surfacing an error, and a string containing any unpaired
\* surrogate yields NaN.
C15_ToNumberTotal ==
    last.op = "to_number" =>
        /\ status = "running"
        /\ last.res.kind \in {"NaN", "Infinity", "Num"}
        /\ HasUnpairedSurrogate(CodeUnits(heap, last.arg)) => last.res = f64_NAN

\* A string holding a lone surrogate gave NaN without a panic.
C15_Witness ==
    /\ last.op = "to_number"
    /\ \E u \in {<<56832, 55357>>, <<55357, 97>>, <<97, 56832>>} :
          CodeUnits(heap, last.arg) = u
    /\ last.res = f64_NAN
    /\ status = "running"

\* ------------------------------------------------------------------------
\* Decoding and round trips (C16, C17)
\* ------------------------------------------------------------------------
\* Scalar values: code points that are no surrogates.
IsText(text) ==
    \A i \in 1..Len(text) : ~is_leading_surrogate(text[i]) /\ ~is_trailing_surrogate(text[i])

\* C16: to_std_string returns a decode error if and only if the string
\* contains an unpaired surrogate, and otherwise the decoded text;
\* to_std_string_escaped never fails.
C16_DecodeErrorIffUnpaired ==
    /\ last.op = "to_std_string" =>
          /\ status = "running"
          /\ last.res.kind \in {"Ok", "Err"}
          /\ last.res.kind = "Err" <=> HasUnpairedSurrogate(CodeUnits(heap, last.arg))
          /\ last.res.kind = "Ok" =>
                /\ IsText(last.res.text)
                /\ encode_utf16(last.res.text) = CodeUnits(heap, last.arg)
    /\ last.op = "to_std_string_escaped" =>
          /\ status = "running"
          /\ last.res.kind = "Ok"
          /\ IsText(last.res.text)

\* A string holding a lone surrogate failed to decode.
C16_Witness ==
    /\ last.op = "to_std_string"
    /\ \E u \in {<<55357, 55357>>, <<56832, 97>>, <<97, 55357>>} :
          CodeUnits(heap, last.arg) = u
    /\ last.res.kind = "Err"

\* C17: construction preserves content: to_std_string(JsString::from(t)) is
\* t for every narrow text t, and the code units (to_vec / iter) of the
\* string built from a UTF-16 sequence u, unpaired surrogates included, are
\* u, whether the result is stored as ascii, as UTF-16 or is interned.
C17_ConstructionRoundTrip ==
    /\ (last.op = "From_str" /\ last.res # NoString) =>
          to_std_string(heap, last.res, debug_assertions) = [kind |-> "Ok", text |-> last.input]
    /\ (last.op = "From_u16" /\ last.res # NoString) =>
          /\ to_vec(heap, last.res, debug_assertions) = last.input
          /\ Iter(JsStringSlice_from_JsStr(as_str(heap, last.res, debug_assertions),
                                           debug_assertions)) = last.input

\* The narrow text U+1F600 was stored as its two surrogate units.
C17_Witness ==
    /\ last.op = "From_str" /\ last.input = <<128512>>
    /\ last.res # NoString /\ ~is_static(last.res)
    /\ CodeUnits(heap, last.res) = <<55357, 56832>>

\* ------------------------------------------------------------------------
\* Whitespace trimming (C18, C19)
\* ------------------------------------------------------------------------
\* The units left when the maximal leading / trailing run of trimmable code
\* points is removed.  Every trimmable code point is one unit wide.
WithoutLeadingSpace(u) ==
    IF FirstNot(u, unit_is_trimmable) = 0 THEN <<>>
    ELSE SubSeq(u, FirstNot(u, unit_is_trimmable), Len(u))

WithoutTrailingSpace(u) == SubSeq(u, 1, LastNot(u, unit_is_trimmable))

\* A string that begins with a trimmable non-ascii code point and whose
\* text after the leading white space is ascii.
NonAsciiSpaceThenAscii(u) ==
    /\ u # <<>>
    /\ unit_is_trimmable(u[1]) /\ u[1] >= 128
    /\ is_ascii(WithoutLeadingSpace(u))

\* C18: trim_start on a JsString that begins with trimmable non-ascii code
\* points (U+FEFF, U+2029, ...) followed by ascii text removes them and
\* yields a view classified as ascii; the JsString built from that view is
\* stored as ascii and equals the remaining text.
C18_TrimStartToAscii ==
    (/\ last.op = "From_trim_start"
     /\ NonAsciiSpaceThenAscii(CodeUnits(heap, last.arg))) =>
        /\ status \in {"running", "alloc_error"}
        /\ JsStringSlice_is_ascii(last.input)
        /\ Iter(last.input) = WithoutLeadingSpace(CodeUnits(heap, last.arg))
        /\ status = "running" =>
              /\ last.res # NoString
              /\ StoredAscii(heap, last.res)
              /\ CodeUnits(heap, last.res) = WithoutLeadingSpace(CodeUnits(heap, last.arg))
              /\ to_std_string(heap, last.res, debug_assertions)
                    = [kind |-> "Ok", text |-> WithoutLeadingSpace(CodeUnits(heap, last.arg))]

\* U+FEFF "0x1" was trimmed to a view of ascii UTF-16 units and built into an
\* ascii block holding "0x1".
C18_Witness ==
    /\ last.op = "From_trim_start"
    /\ CodeUnits(heap, last.arg) = <<65279, 48, 120, 49>>
    /\ last.input.variant = "U16Ascii"
    /\ last.res # NoString /\ ~is_static(last.res)
    /\ StoredAscii(heap, last.res)
    /\ CodeUnits(heap, last.res) = <<48, 120, 49>>

\* C19: for a view of any of the four origins, trim_start / trim_end remove
\* exactly the maximal leading / trailing run of code points of the
\* ECMAScript white space and line terminator set (U+FEFF in, U+0085 out),
\* so the result depends on the content only, and an all-whitespace input
\* yields the empty ascii view.
C19_TrimExactSet ==
    /\ last.op = "trim_start" =>
          /\ last.res # PanicView
          /\ Iter(last.res) = WithoutLeadingSpace(Iter(last.input))
          /\ WithoutLeadingSpace(Iter(last.input)) = <<>> =>
                (JsStringSlice_is_ascii(last.res) /\ JsStringSlice_len(last.res) = 0)
    /\ last.op = "trim_end" =>
          /\ last.res # PanicView
          /\ Iter(last.res) = WithoutTrailingSpace(Iter(last.input))
          /\ WithoutTrailingSpace(Iter(last.input)) = <<>> =>
                (JsStringSlice_is_ascii(last.res) /\ JsStringSlice_len(last.res) = 0)

\* ------------------------------------------------------------------------
\* Out-of-range access (C20)
\* ------------------------------------------------------------------------
\* C20: get(index) returns the code unit at index when index < length and
\* absent, without panicking, when index >= length; get(range) returns absent
\* when the end exceeds the length or start > end; get_expect panics on
\* exactly the inputs where get returns absent; code_point_at panics when
\* position >= length.
C20_OutOfRangePolicy ==
    /\ last.op = "get" =>
          /\ status = "running"
          /\ last.res = IF last.input < len(heap, last.arg)
                        THEN Some(CodeUnits(heap, last.arg)[last.input + 1])
                        ELSE None
    /\ (/\ last.op = "get_range"
        /\ (last.input[2] > len(heap, last.arg) \/ last.input[1] > last.input[2])) =>
          (last.res = AbsentView /\ status = "running")
    /\ last.op = "get_expect" =>
          (status = "panic"
              <=> get(heap, last.arg, last.input, debug_assertions) = None)
    /\ last.op = "get_expect_range" =>
          (status = "panic"
              <=> get_range(heap, last.arg, last.input[1], last.input[2],
                            debug_assertions) = AbsentView)
    /\ (last.op = "code_point_at" /\ last.input >= len(heap, last.arg)) =>
          status = "panic"

\* ------------------------------------------------------------------------
\* Escaped display text (C23)
\* ------------------------------------------------------------------------
\* The ascii codes of "0123456789ABCDEF".
UpperHex == <<48, 49, 50, 51, 52, 53, 54, 55, 56, 57, 65, 66, 67, 68, 69, 70>>

\* Backslash, 'u' and the value n < 65536 as four upper-case hex digits.
EscapeOf(n) ==
    <<92, 117, UpperHex[(n \div 4096) + 1], UpperHex[((n \div 256) % 16) + 1],
      UpperHex[((n \div 16) % 16) + 1], UpperHex[(n % 16) + 1]>>

\* The escaped text of a code unit sequence, read left to right: a leading
\* surrogate followed by a trailing one is one scalar, any other surrogate
\* is escaped, any other unit is itself.
RECURSIVE EscapedText(_)
EscapedText(u) ==
    IF u = <<>> THEN <<>>
    ELSE IF Len(u) >= 2 /\ is_leading_surrogate(u[1]) /\ is_trailing_surrogate(u[2])
         THEN <<UTF16SurrogatePairToCodePoint(u[1], u[2])>> \o EscapedText(SubSeq(u, 3, Len(u)))
    ELSE IF is_leading_surrogate(u[1]) \/ is_trailing_surrogate(u[1])
         THEN EscapeOf(u[1]) \o EscapedText(Tail(u))
    ELSE <<u[1]>> \o EscapedText(Tail(u))

\* C23: to_std_string_escaped decodes the code units left to right with the
\* UTF-16 pairing rules, appends each scalar as its text and each unpaired
\* surrogate as backslash-u with exactly four upper-case hex digits; without
\* unpaired surrogates the result is the text of to_std_string.
C23_EscapedText ==
    last.op = "to_std_string_escaped" =>
        /\ status = "running"
        /\ last.res = [kind |-> "Ok", text |-> EscapedText(CodeUnits(heap, last.arg))]
        /\ ~HasUnpairedSurrogate(CodeUnits(heap, last.arg)) =>
              last.res = to_std_string(heap, last.arg, debug_assertions)

\* "a" and a lone U+D83D gave the text a\uD83D.
C23_Witness ==
    /\ last.op = "to_std_string_escaped"
    /\ CodeUnits(heap, last.arg) = <<97, 55357>>
    /\ last.res.text = <<97, 92, 117, 68, 56, 51, 68>>

\* ------------------------------------------------------------------------
\* Sign before a radix prefix (C29)
\* ------------------------------------------------------------------------
\* What the decimal literal parser makes of a text: its value, or NaN.
LiteralValue(text) ==
    IF fast_float_parse(str_bytes(text)).some
    THEN fast_float_parse(str_bytes(text)).v
    ELSE f64_NAN

\* A sign followed by a radix prefix.
SignThenPrefix(text) ==
    text # <<>> /\ text[1] \in {43, 45} /\ radix_of_prefix(Tail(text)) # 0

\* C29: a radix prefix is recognised only as the first two characters of the
\* trimmed text; a text with '+' or '-' before the prefix ("-0b11", "+0x1F")
\* is handed unchanged to the decimal literal parser, which rejects it, so
\* it is never read as a signed radix integer.
C29_SignBeforePrefix ==
    (/\ last.op = "to_number"
     /\ to_std_string(heap, last.arg, debug_assertions).kind = "Ok") =>
        LET text == TrimmedText(heap, last.arg, debug_assertions) IN
        /\ (/\ text # <<>>
            /\ radix_of_prefix(text) = 0
            /\ text \notin {Infinity_text, <<43>> \o Infinity_text, <<45>> \o Infinity_text}
            /\ text[1] \notin {105, 73}) => last.res = LiteralValue(text)
        /\ SignThenPrefix(text) =>
              /\ last.res = LiteralValue(text)
              /\ last.res = f64_NAN

\* "-0b11" was coerced and gave NaN.
C29_Witness ==
    /\ last.op = "to_number"
    /\ CodeUnits(heap, last.arg) = <<45, 48, 98, 49, 49>>
    /\ last.res = f64_NAN

\* ------------------------------------------------------------------------
\* Canonical classification (C24)
\* ------------------------------------------------------------------------
\* A JsStr view is tagged ascii exactly when all its units are below 128.
CanonicalStr(v) ==
    /\ v.variant \in {"Ascii", "U16"}
    /\ v.variant = "Ascii" <=> is_ascii(v.data)

\* A JsStringSlice view is tagged ascii exactly when all its units are.
CanonicalSlice(v) ==
    /\ v.variant \in {"U8Ascii", "U8NonAscii", "U16Ascii", "U16NonAscii"}
    /\ JsStringSlice_is_ascii(v) <=> is_ascii(Iter(v))

\* C24: in every reachable state, every live JsString is stored as ascii
\* exactly when all its code units are below 128, and so is tagged every
\* JsStr and JsStringSlice view derived from it: the whole string and each
\* of its range sub-slices, ascii-only and empty ones included.
C24_ClassificationCanonical ==
    \A t \in Live :
        /\ StoredAscii(heap, t) <=> is_ascii(CodeUnits(heap, t))
        /\ CanonicalStr(as_str(heap, t, debug_assertions))
        /\ \A r \in Ranges(len(heap, t)) :
              /\ CanonicalStr(GetRange(t, r))
              /\ CanonicalSlice(JsStringSlice_from_JsStr(GetRange(t, r), debug_assertions))

\* ------------------------------------------------------------------------
\* Fresh blocks (C25)
\* ------------------------------------------------------------------------
\* A construction of content that is not interned returns a block that was
\* free before, counts one reference, and touches no other block.
ConstructionIsFresh ==
    (/\ last'.op \in ConstructOps
     /\ status' = "running"
     /\ last'.res # NoString
     /\ ~Registered(CodeUnits(heap', last'.res))) =>
        /\ ~is_static(last'.res)
        /\ ~heap[last'.res.v].live /\ handles[last'.res] = 0
        /\ heap'[last'.res.v].live /\ refcount(heap', last'.res) = 1
        /\ handles'[last'.res] = 1
        /\ last'.nalloc = 1 /\ last'.nfree = 0
        /\ \A b \in Addrs \ {last'.res.v} : heap'[b] = heap[b]

\* A clone returns the block it was given.
CloneIsSameBlock ==
    (last'.op = "clone" /\ status' = "running") =>
        /\ last'.res = last'.arg
        /\ last'.nalloc = 0
        /\ \A b \in Addrs : heap'[b].live = heap[b].live /\ heap'[b].data = heap[b].data

\* C25: a construction (direct or concat) of content that is not interned
\* returns a freshly allocated block with refcount 1, distinct from every
\* other live block even of equal content, and leaves every pre-existing
\* block unchanged; clone returns a handle to the same block.
C25_FreshBlockPerConstruction == [][ConstructionIsFresh /\ CloneIsSameBlock]_vars

\* A concat has built a block while another live block holds equal content.
C25_Witness ==
    /\ last.op = "concat_array" /\ status = "running"
    /\ last.res # NoString /\ ~is_static(last.res)
    /\ refcount(heap, last.res) = 1
    /\ \E b \in Addrs \ {last.res.v} :
          /\ heap[b].live /\ handles[Ptr(b)] > 0
          /\ heap[b].data = heap[last.res.v].data
          /\ heap[b].flags = heap[last.res.v].flags

\* ------------------------------------------------------------------------
\* Ordering and equality (C27, C28)
\* ------------------------------------------------------------------------
\* x comes before y in the lexicographic order of 16-bit units: at the first
\* position where they differ x is smaller, or x is a strict prefix of y.
LexLess(x, y) ==
    \E k \in 0..Len(x) :
        /\ k <= Len(y)
        /\ SubSeq(x, 1, k) = SubSeq(y, 1, k)
        /\ \/ k = Len(x) /\ k < Len(y)
           \/ k < Len(x) /\ k < Len(y) /\ x[k + 1] < y[k + 1]

LexOrder(x, y) ==
    IF x = y THEN "Equal" ELSE IF LexLess(x, y) THEN "Less" ELSE "Greater"

\* C27: cmp is the lexicographic order of the code unit sequences, a total
\* order, and a == b holds exactly when a.cmp(b) is Equal, that is exactly
\* when the code unit sequences are identical.
C27_CoherentKey ==
    \A a \in Live : \A b \in Live :
        /\ cmp(heap, a, b, debug_assertions) = LexOrder(CodeUnits(heap, a), CodeUnits(heap, b))
        /\ cmp(heap, a, b, debug_assertions) = "Less"
              <=> cmp(heap, b, a, debug_assertions) = "Greater"
        /\ \A c \in Live :
              (/\ cmp(heap, a, b, debug_assertions) \in {"Less", "Equal"}
               /\ cmp(heap, b, c, debug_assertions) \in {"Less", "Equal"}) =>
                  cmp(heap, a, c, debug_assertions) \in {"Less", "Equal"}
        /\ eq(heap, a, b, debug_assertions)
              <=> cmp(heap, a, b, debug_assertions) = "Equal"
        /\ eq(heap, a, b, debug_assertions)
              <=> CodeUnits(heap, a) = CodeUnits(heap, b)

\* x is a strict prefix of y.
StrictPrefix(x, y) == Len(x) < Len(y) /\ x = SubSeq(y, 1, Len(x))

\* C28: js == text is true exactly when the code units of js are the UTF-16
\* encoding of text; it is false when js holds an unpaired surrogate, when
\* one side is a strict prefix of the other, and when js is stored as ascii
\* and text holds a non-ascii character.
C28_EqualsNarrowText ==
    last.op = "eq_str" =>
        LET units == CodeUnits(heap, last.arg)
            text == encode_utf16(last.input)
        IN  /\ status = "running"
            /\ last.res \in BOOLEAN
            /\ last.res <=> units = text
            /\ HasUnpairedSurrogate(units) => ~last.res
            /\ (StrictPrefix(units, text) \/ StrictPrefix(text, units)) => ~last.res
            /\ (StoredAscii(heap, last.arg) /\ ~is_ascii(last.input)) => ~last.res

\* The string of the surrogate pair D83D DE00 equals the text U+1F600.
C28_Witness ==
    /\ last.op = "eq_str"
    /\ CodeUnits(heap, last.arg) = <<55357, 56832>>
    /\ last.input = <<128512>>
    /\ last.res = TRUE

\* ------------------------------------------------------------------------
\* The code unit iterator (C26)
\* ------------------------------------------------------------------------
\* C26: for the iterator over a view of any of the four origins, after k
\* next() calls len() is the number of items still to come (the unit count
\* minus min(k, count)); the items are the view's code units in order and
\* then None for ever; each iter() call starts again at the first unit.
C26_IteratorExactSize ==
    last.op \in {"iter", "next"} =>
        LET units == Iter(last.input)
            k == Len(last.res.yielded)
        IN  /\ last.op = "iter" => k = 0
            /\ \A i \in 1..k :
                  last.res.yielded[i] = IF i <= Len(units) THEN Some(units[i]) ELSE None
            /\ last.res.len = Len(units) - (IF k < Len(units) THEN k ELSE Len(units))

\* ------------------------------------------------------------------------
\* Size overflow and allocation failure (C22)
\* ------------------------------------------------------------------------
\* The views of the request executed last.
RequestViews == IF last.op = "concat_array" THEN last.input ELSE <<last.input>>

\* The code units and the bytes the request asks for.
RequestUnits == SumSeq([i \in 1..Len(RequestViews) |-> JsStringSlice_len(RequestViews[i])])

RequestBytes ==
    DATA_OFFSET + RequestUnits *
        (IF \A i \in 1..Len(RequestViews) : JsStringSlice_is_ascii(RequestViews[i])
         THEN 1 ELSE 2)

\* The sum of the lengths does not fit the address width, or the header and
\* the data do not fit a layout.
RequestOverflows ==
    \/ RequestUnits > USIZE_MAX
    \/ RequestBytes > ISIZE_MAX - (RawJsString_align - 1)

\* The request is answered from the interned table without building.
RequestIsInterned ==
    /\ last.op = "From_JsStringSlice"
    /\ last.input.variant = "U8Ascii"
    /\ Registered(last.input.data)

\* C22: when the sum of the view lengths or the layout of header plus data
\* overflows, the operation ends with the overflow error and the allocator
\* is not called for the request; a null return of the allocator ends it
\* with the allocation error, which is a different one.
C22_OverflowBeforeAllocation ==
    (last.op \in {"From_JsStringSlice", "concat_array"} /\ ~RequestIsInterned) =>
        /\ RequestOverflows <=> status = "overflow"
        /\ status = "overflow" =>
              /\ last.nalloc = 0 /\ last.nfree = 0 /\ last.res = NoString
              /\ \A a \in Addrs : ~heap[a].live
        /\ status = "alloc_error" =>
              /\ last.nalloc = 1 /\ last.res = NoString
              /\ \A a \in Addrs : ~heap[a].live
        /\ status \in {"overflow", "alloc_error", "running"}
        /\ status = "running" => last.nalloc = 1

\* Three views whose lengths add up to more than usize::MAX were refused
\* without a call of the allocator.
C22_Witness ==
    /\ last.op = "concat_array"
    /\ RequestUnits = USIZE_MAX + 1
    /\ status = "overflow"
    /\ last.nalloc = 0

\* ------------------------------------------------------------------------
\* Layout at allocation and at release (C30)
\* ------------------------------------------------------------------------
\* Bytes per code unit that the flag of a header stands for.
FlagWidth(inner) == IF inner.flags = 0 THEN 2 ELSE 1

\* A block whose header, data and layout agree on the encoding.
BlockConsistent(a) ==
    /\ heap[a].layout.ok
    /\ heap[a].layout.align = RawJsString_align
    /\ heap[a].layout.size >= DATA_OFFSET + heap[a].len * FlagWidth(heap[a])
    /\ heap[a].layout.size < DATA_OFFSET + heap[a].len * FlagWidth(heap[a]) + RawJsString_align
    /\ heap[a].unit = FlagWidth(heap[a])
    /\ Len(heap[a].data) = heap[a].len
    /\ as_str(heap, Ptr(a), debug_assertions).variant
          = (IF heap[a].unit = 1 THEN "Ascii" ELSE "U16")
    /\ drop_layout(heap[a]) = heap[a].layout

\* C30: for every block the layout rebuilt at release from the stored length
\* and flag is the layout it was allocated with, for both encodings, and
\* the flag that sizes the block is the one as_str reads the data by, so
\* bytes are never read or freed as UTF-16 units or the reverse.
C30_ReleaseLayoutIsAllocLayout ==
    /\ \A a \in Addrs : heap[a].live => BlockConsistent(a)
    /\ (last.op = "drop" /\ last.nfree = 1) =>
          /\ last.input.layout.ok
          /\ last.input.layout = last.input.inner.layout
          /\ last.input.inner.unit = FlagWidth(last.input.inner)

\* A UTF-16 block of the greatest length that fits was released with the
\* layout it was allocated with.
C30_Witness ==
    /\ last.op = "drop" /\ last.nfree = 1
    /\ last.input.inner.flags = 0
    /\ last.input.inner.len = WideFit
    /\ last.input.layout = Layout(DATA_OFFSET + 2 * WideFit, RawJsString_align)
    /\ last.input.layout = last.input.inner.layout

\* ------------------------------------------------------------------------
\* Unsynchronized sharing (C21)
\* ------------------------------------------------------------------------
\* No thread is inside a clone or a drop.
Quiet == \A th \in Threads : threads.pc[th] = "idle"

\* The handles the threads hold.
HandlesHeld == SumSeq([th \in Threads |-> threads.own[th]])

\* The refcount of the shared block is the number of handles, and the block
\* is allocated exactly as long as there is a handle.
CountMatchesHandles ==
    /\ heap[Shared.v].live <=> HandlesHeld > 0
    /\ heap[Shared.v].live => refcount_get(heap, Shared) = HandlesHeld

\* C21: the refcount is updated by a read followed by a write.  When every
\* clone and drop runs to completion before the next one starts, the
\* refcount is the number of live handles whenever no operation is running
\* and the block is never touched after its release; when two threads
\* interleave them, a state with a different refcount is reachable (the
\* witness), which ends in a premature free or a leak.
C21_SerializedClonesAndDropsCount ==
    threads.sync =>
        /\ status \in {"running", "abort"}
        /\ handles[Shared] = HandlesHeld
        /\ (status = "running" /\ Quiet) => CountMatchesHandles

\* Two threads interleaved a clone and a drop and one update was lost: no
\* operation is running, the block is allocated, and its refcount is not
\* the number of handles.
C21_Witness ==
    /\ ~threads.sync
    /\ status = "running" /\ Quiet
    /\ heap[Shared.v].live
    /\ refcount_get(heap, Shared) # HandlesHeld

====
